---- MODULE Spec2Model ----
(***************************************************************************)
(* A model of apple-mail-mcp: the AppleMailManager facade                  *)
(* (src/src/services/appleMailManager.ts).                                 *)
(*                                                                         *)
(* Text is modelled character by character: a string is a sequence of      *)
(* one-character strings, so that escaping, splitting, trimming, prefix    *)
(* tests and lower-casing are computed the way the code computes them.     *)
(***************************************************************************)
EXTENDS Integers, Sequences, FiniteSets, TLC

VARIABLES
    mailAccounts,    \* Mail.app: the names of its accounts, in Mail's order
    defaultAccount,  \* AppleMailManager.defaultAccount (null until cached)
    call,            \* the operation in progress and its arguments
    ret,             \* what the operation returned: [kind, val]
    trace            \* the external executions the operation issued, in order

vars == <<mailAccounts, defaultAccount, call, ret, trace>>

(***************************************************************************)
(* Bounds of the model.                                                    *)
(***************************************************************************)
MaxLen == 4          \* longest text given to escapeForAppleScript
MaxMailboxes == 3    \* longest live mailbox list given to resolveMailbox
MaxIds == 2          \* longest id list given to a batch operation

(***************************************************************************)
(* JavaScript values.                                                      *)
(***************************************************************************)
BS == "\\"
DQ == "\""

\* null and undefined are one-element sequences holding a token that is not a
\* character, so they compare with every string and equal none.
null == <<"<null>">>
undefined == <<"<undefined>">>

\* The truthiness of a string-or-null value: if (x), !x.
Truthy(s) == s # null /\ s # undefined /\ s # <<>>

\* String.prototype.startsWith
StartsWith(s, p) == Len(s) >= Len(p) /\ SubSeq(s, 1, Len(p)) = p

\* The first index at which sep occurs in s, 0 when it does not occur.
IndexOf(s, sep) ==
    LET hits == {i \in 1..(Len(s) - Len(sep) + 1) : SubSeq(s, i, i + Len(sep) - 1) = sep}
    IN  IF hits = {} THEN 0 ELSE CHOOSE i \in hits : \A j \in hits : i <= j

\* String.prototype.includes
Includes(s, p) == p = <<>> \/ IndexOf(s, p) # 0

\* String.prototype.split with a non-empty separator: the pieces between the
\* occurrences of sep, scanned left to right; a text without sep is one piece.
RECURSIVE Split(_, _)
Split(s, sep) ==
    LET i == IndexOf(s, sep)
    IN  IF i = 0 THEN <<s>>
        ELSE <<SubSeq(s, 1, i - 1)>> \o Split(SubSeq(s, i + Len(sep), Len(s)), sep)

\* Array.prototype.join
RECURSIVE Join(_, _)
Join(parts, sep) ==
    IF parts = <<>> THEN <<>>
    ELSE IF Len(parts) = 1 THEN parts[1]
    ELSE parts[1] \o sep \o Join(Tail(parts), sep)

WhiteSpace == {" ", "\n", "\t", "\r"}

\* String.prototype.trim
RECURSIVE TrimStart(_)
TrimStart(s) == IF s # <<>> /\ Head(s) \in WhiteSpace THEN TrimStart(Tail(s)) ELSE s
RECURSIVE TrimEnd(_)
TrimEnd(s) ==
    IF s # <<>> /\ s[Len(s)] \in WhiteSpace THEN TrimEnd(SubSeq(s, 1, Len(s) - 1)) ELSE s
Trim(s) == TrimEnd(TrimStart(s))

UpperCase == <<"A","B","C","D","E","F","G","H","I","J","K","L","M",
               "N","O","P","Q","R","S","T","U","V","W","X","Y","Z">>
LowerCase == <<"a","b","c","d","e","f","g","h","i","j","k","l","m",
               "n","o","p","q","r","s","t","u","v","w","x","y","z">>

\* String.prototype.toLowerCase
toLowerCase(s) ==
    [i \in 1..Len(s) |->
        IF \E k \in 1..26 : UpperCase[k] = s[i]
        THEN LowerCase[CHOOSE k \in 1..26 : UpperCase[k] = s[i]]
        ELSE s[i]]

\* String.prototype.replace(/c/g, rep) for a one-character pattern.
RECURSIVE ReplaceAll(_, _, _)
ReplaceAll(s, c, rep) ==
    IF s = <<>> THEN <<>>
    ELSE (IF Head(s) = c THEN rep ELSE <<Head(s)>>) \o ReplaceAll(Tail(s), c, rep)

\* All sequences over S of length at most n.
RECURSIVE SeqsUpTo(_, _)
SeqsUpTo(S, n) ==
    IF n = 0 THEN {<<>>}
    ELSE LET shorter == SeqsUpTo(S, n - 1)
         IN  shorter \cup {Append(s, x) : s \in {t \in shorter : Len(t) = n - 1}, x \in S}

(***************************************************************************)
(* Text processing utilities.                                              *)
(***************************************************************************)

\* A slip in the order of the two replacements: quotes first, then backslashes,
\* which escapes again the backslash that protects each quote.
escapeQuotesFirst(text) ==
    IF ~Truthy(text) THEN <<>>
    ELSE ReplaceAll(ReplaceAll(text, DQ, <<BS, DQ>>), BS, <<BS, BS>>)

\* escapeForAppleScript: backslashes first, then double quotes.
escapeForAppleScript(text) ==
    IF ~Truthy(text) THEN <<>>
    ELSE ReplaceAll(ReplaceAll(text, BS, <<BS, BS>>), DQ, <<BS, DQ>>)

\* How AppleScript reads the inside of a string literal: a backslash makes the
\* next character literal.
RECURSIVE UnescapeLiteral(_)
UnescapeLiteral(e) ==
    IF e = <<>> THEN <<>>
    ELSE IF Head(e) = BS /\ Len(e) >= 2
         THEN <<e[2]>> \o UnescapeLiteral(SubSeq(e, 3, Len(e)))
         ELSE <<Head(e)>> \o UnescapeLiteral(Tail(e))

\* The length of the run of backslashes that ends just before position i.
RECURSIVE BackslashRun(_, _)
BackslashRun(e, i) == IF i > 1 /\ e[i - 1] = BS THEN 1 + BackslashRun(e, i - 1) ELSE 0

(***************************************************************************)
(* External execution: executeAppleScript(script) gives {success, output,  *)
(* error}.  A script is a template with its interpolations in order; each  *)
(* interpolation records the parameter it comes from, the value given, and *)
(* the text put into the script.                                           *)
(***************************************************************************)
Ok(output) == [success |-> TRUE, output |-> output, error |-> undefined]
Fail(error) == [success |-> FALSE, output |-> <<>>, error |-> error]

Arg(param, raw, text) == [param |-> param, raw |-> raw, text |-> text]
Command(template, args) == [template |-> template, args |-> args]

\* buildAccountScopedScript: tell account "<escaped account>" ... end tell
buildAccountScopedScript(account, command) ==
    [template |-> command.template, scope |-> "account",
     args |-> <<Arg("account", account, escapeForAppleScript(account))>> \o command.args]

\* buildAppLevelScript: tell application "Mail" ... end tell
buildAppLevelScript(command) ==
    [template |-> command.template, scope |-> "app", args |-> command.args]

Executed(script, result) == [script |-> script, result |-> result]

(***************************************************************************)
(* Name resolution.                                                        *)
(***************************************************************************)
MAILBOX_ALIASES == <<
    [key |-> <<"i","n","b","o","x">>,
     aliases |-> <<<<"I","N","B","O","X">>,
                   <<"I","n","b","o","x">>,
                   <<"i","n","b","o","x">>>>],
    [key |-> <<"s","e","n","t">>,
     aliases |-> <<<<"S","e","n","t">>,
                   <<"S","e","n","t"," ","I","t","e","m","s">>,
                   <<"S","e","n","t"," ","M","e","s","s","a","g","e","s">>,
                   <<"S","E","N","T">>,
                   <<"s","e","n","t">>>>],
    [key |-> <<"d","r","a","f","t","s">>,
     aliases |-> <<<<"D","r","a","f","t","s">>,
                   <<"D","R","A","F","T","S">>,
                   <<"d","r","a","f","t","s">>,
                   <<"D","r","a","f","t">>>>],
    [key |-> <<"t","r","a","s","h">>,
     aliases |-> <<<<"T","r","a","s","h">>,
                   <<"D","e","l","e","t","e","d"," ","I","t","e","m","s">>,
                   <<"D","e","l","e","t","e","d"," ","M","e","s","s","a","g","e","s">>,
                   <<"T","R","A","S","H">>,
                   <<"t","r","a","s","h">>>>],
    [key |-> <<"j","u","n","k">>,
     aliases |-> <<<<"J","u","n","k">>,
                   <<"J","u","n","k"," ","E","m","a","i","l">>,
                   <<"S","p","a","m">>,
                   <<"J","U","N","K">>,
                   <<"j","u","n","k">>>>],
    [key |-> <<"a","r","c","h","i","v","e">>,
     aliases |-> <<<<"A","r","c","h","i","v","e">>,
                   <<"A","R","C","H","I","V","E">>,
                   <<"a","r","c","h","i","v","e">>,
                   <<"A","l","l"," ","M","a","i","l">>>>]
>>

\* What MAILBOX_ALIASES[key] evaluates to.  MAILBOX_ALIASES is an object
\* literal, so a key that is not its own is looked up on Object.prototype:
\* of the names a lower-cased key can take, "constructor" and "__proto__" are
\* found there, and their values are truthy and not iterable.
ObjectPrototypeKeys == {
    <<"c","o","n","s","t","r","u","c","t","o","r">>,
    <<"_","_","p","r","o","t","o","_","_">>}

AliasLookup(key) ==
    IF \E k \in 1..Len(MAILBOX_ALIASES) : MAILBOX_ALIASES[k].key = key
    THEN [found |-> "own",
          aliases |-> MAILBOX_ALIASES[CHOOSE k \in 1..Len(MAILBOX_ALIASES) :
                                          MAILBOX_ALIASES[k].key = key].aliases]
    ELSE IF key \in ObjectPrototypeKeys
         THEN [found |-> "inherited", aliases |-> <<>>]
         ELSE [found |-> "none", aliases |-> <<>>]

\* A TypeError thrown by the operation (for...of over a value that is not iterable).
TypeError == <<"<TypeError>">>

\* Array.prototype.includes
ArrayIncludes(arr, x) == \E i \in 1..Len(arr) : arr[i] = x

\* Array.prototype.find((mb) => mb.toLowerCase() === lower): the first such
\* element, undefined when there is none.
FindIgnoringCase(arr, lower) ==
    LET hits == {i \in 1..Len(arr) : toLowerCase(arr[i]) = lower}
    IN  IF hits = {} THEN undefined
        ELSE arr[CHOOSE i \in hits : \A j \in hits : i <= j]

\* The loop over the aliases (lines 198-207), from alias k on.
RECURSIVE AliasScan(_, _, _, _)
AliasScan(aliases, k, actualMailboxes, mailbox) ==
    IF k > Len(aliases) THEN mailbox
    ELSE IF ArrayIncludes(actualMailboxes, aliases[k]) THEN aliases[k]
    ELSE LET aliasMatch == FindIgnoringCase(actualMailboxes, toLowerCase(aliases[k]))
         IN  IF Truthy(aliasMatch) THEN aliasMatch
             ELSE AliasScan(aliases, k + 1, actualMailboxes, mailbox)

\* The script resolveMailbox runs: the names of the account's mailboxes.
mailboxNamesScript(account) ==
    buildAccountScopedScript(account, Command("mailboxNames", <<>>))

\* result.output.split(", ").map((s) => s.trim())
ParseMailboxNames(output) ==
    LET parts == Split(output, <<",", " ">>)
    IN  [i \in 1..Len(parts) |-> Trim(parts[i])]

\* resolveMailbox, lines 183-211: the match against the parsed names.
matchMailbox(mailbox, actualMailboxes) ==
    LET lowerMailbox == toLowerCase(mailbox)
        caseMatch == FindIgnoringCase(actualMailboxes, lowerMailbox)
        aliases == AliasLookup(lowerMailbox)
    IN  IF ArrayIncludes(actualMailboxes, mailbox) THEN mailbox
        ELSE IF Truthy(caseMatch) THEN caseMatch
        ELSE IF aliases.found = "none" THEN mailbox
        ELSE IF aliases.found = "inherited" THEN TypeError
        ELSE AliasScan(aliases.aliases, 1, actualMailboxes, mailbox)

\* resolveMailbox(mailbox, account), given the result of its execution.
resolveMailbox(mailbox, account, result) ==
    IF ~result.success \/ ~Truthy(result.output) THEN mailbox
    ELSE matchMailbox(mailbox, ParseMailboxNames(result.output))

(***************************************************************************)
(* Return values: [kind, val].                                             *)
(***************************************************************************)
Pending == [kind |-> "pending", val |-> <<>>]
RetString(s) == [kind |-> "string", val |-> s]

(***************************************************************************)
(* escapeForAppleScript on its own: Init draws the text, the action        *)
(* applies the function.                                                   *)
(***************************************************************************)
EscapeAlphabet == {BS, DQ, "a"}

InitEscape ==
    /\ mailAccounts = <<>>
    /\ defaultAccount = null
    /\ call \in {[op |-> "escapeForAppleScript", text |-> t] :
                    t \in SeqsUpTo(EscapeAlphabet, MaxLen) \cup {undefined}}
    /\ ret = Pending
    /\ trace = <<>>

ApplyEscape ==
    /\ call.op = "escapeForAppleScript"
    /\ ret = Pending
    /\ ret' = RetString(escapeForAppleScript(call.text))
    /\ UNCHANGED <<mailAccounts, defaultAccount, call, trace>>

NextEscape == ApplyEscape

SpecEscape == InitEscape /\ [][NextEscape]_vars

\* C1: decoding the escaped text by the string-literal rules gives back the
\* text; every double quote of the escaped text follows an odd run of
\* backslashes; the empty (or absent) text escapes to the empty text.
EscapeRoundTrip ==
    (call.op = "escapeForAppleScript" /\ ret.kind = "string") =>
        LET t == IF Truthy(call.text) THEN call.text ELSE <<>>
            e == ret.val
        IN  /\ UnescapeLiteral(e) = t
            /\ \A i \in 1..Len(e) : e[i] = DQ => BackslashRun(e, i) % 2 = 1
            /\ (t = <<>> => e = <<>>)

\* A text holding both a backslash and a quote has been escaped.
EscapeRoundTripWitness ==
    /\ call.op = "escapeForAppleScript"
    /\ ret.kind = "string"
    /\ Truthy(call.text)
    /\ \E i, j \in 1..Len(call.text) : call.text[i] = BS /\ call.text[j] = DQ
    /\ Len(ret.val) = Len(call.text) + 2

(***************************************************************************)
(* resolveMailbox on its own: Init draws the requested name, the account's *)
(* live mailbox list and whether the query succeeds; the action runs       *)
(* resolveMailbox against what Mail returns for that list.                 *)
(***************************************************************************)
sINBOX == <<"I","N","B","O","X">>
sInbox == <<"I","n","b","o","x">>
sinbox == <<"i","n","b","o","x">>
sSentItems == <<"S","e","n","t"," ","I","t","e","m","s">>
sSentItemsLower == <<"s","e","n","t"," ","i","t","e","m","s">>
sSentMessages == <<"S","e","n","t"," ","M","e","s","s","a","g","e","s">>
sOldInbox == <<"O","l","d",","," ","I","N","B","O","X">>
ssent == <<"s","e","n","t">>
sSENT == <<"S","E","N","T">>
sarchive == <<"a","r","c","h","i","v","e">>
sconstructor == <<"c","o","n","s","t","r","u","c","t","o","r">>
sWork == <<"W","o","r","k">>
sHome == <<"H","o","m","e">>
sTimeout == <<"t","i","m","e","o","u","t">>

\* Mailbox names an account may hold; one of them contains ", ".
LiveNames == {sINBOX, sInbox, sSentItems, sSentItemsLower, sSentMessages, sOldInbox}
RequestedNames == {sinbox, sINBOX, ssent, sSENT, sarchive, sconstructor, sSentItems}

\* What the mailbox-names script returns for a list of names: osascript prints
\* a list with its items separated by ", " (line 180).
MailboxNamesOutput(names) == Join(names, <<",", " ">>)

InitResolve ==
    /\ mailAccounts = <<sWork>>
    /\ defaultAccount = null
    /\ call \in {[op |-> "resolveMailbox", mailbox |-> m, account |-> sWork,
                  live |-> L, fetched |-> f] :
                    m \in RequestedNames,
                    L \in SeqsUpTo(LiveNames, MaxMailboxes),
                    f \in BOOLEAN}
    /\ ret = Pending
    /\ trace = <<>>

ApplyResolve ==
    /\ call.op = "resolveMailbox"
    /\ ret = Pending
    /\ LET result == IF call.fetched THEN Ok(MailboxNamesOutput(call.live))
                     ELSE Fail(sTimeout)
           value == resolveMailbox(call.mailbox, call.account, result)
       IN  /\ trace' = <<Executed(mailboxNamesScript(call.account), result)>>
           /\ ret' = IF value = TypeError THEN [kind |-> "throw", val |-> TypeError]
                     ELSE RetString(value)
    /\ UNCHANGED <<mailAccounts, defaultAccount, call>>

NextResolve == ApplyResolve

SpecResolve == InitResolve /\ [][NextResolve]_vars

Range(s) == {s[i] : i \in 1..Len(s)}

\* The list resolveMailbox obtained, when it obtained one.
FetchedList == ParseMailboxNames(trace[1].result.output)
Fetched ==
    /\ call.op = "resolveMailbox" /\ ret # Pending
    /\ trace[1].result.success /\ Truthy(trace[1].result.output)

\* The first element of L equal to name ignoring case.
FirstIgnoringCase(L, name) ==
    L[CHOOSE i \in 1..Len(L) :
        /\ toLowerCase(L[i]) = toLowerCase(name)
        /\ \A j \in 1..(i - 1) : toLowerCase(L[j]) # toLowerCase(name)]
MatchesIgnoringCase(L, name) == \E i \in 1..Len(L) : toLowerCase(L[i]) = toLowerCase(name)

IsAliasKey(key) == \E k \in 1..Len(MAILBOX_ALIASES) : MAILBOX_ALIASES[k].key = key
AliasesOf(key) ==
    MAILBOX_ALIASES[CHOOSE k \in 1..Len(MAILBOX_ALIASES) : MAILBOX_ALIASES[k].key = key].aliases

\* The ordered procedure of the claim: exact, ignoring case, alias table, fallback.
OrderedProcedure(requested, L) ==
    IF requested \in Range(L) THEN requested
    ELSE IF MatchesIgnoringCase(L, requested) THEN FirstIgnoringCase(L, requested)
    ELSE IF /\ IsAliasKey(toLowerCase(requested))
            /\ \E a \in Range(AliasesOf(toLowerCase(requested))) : MatchesIgnoringCase(L, a)
         THEN LET aliases == AliasesOf(toLowerCase(requested))
                  k == CHOOSE i \in 1..Len(aliases) :
                           /\ MatchesIgnoringCase(L, aliases[i])
                           /\ \A j \in 1..(i - 1) : ~MatchesIgnoringCase(L, aliases[j])
              IN  IF aliases[k] \in Range(L) THEN aliases[k]
                  ELSE FirstIgnoringCase(L, aliases[k])
         ELSE requested

\* C3: when the list is fetched, resolveMailbox returns the result of the
\* ordered procedure (exact match, match ignoring case, alias table in table
\* order, else the requested name unchanged).
ResolveFollowsProcedure ==
    Fetched => (ret.kind = "string" /\ ret.val = OrderedProcedure(call.mailbox, FetchedList))

\* C4: resolveMailbox("inbox", account) returns an element of the live list
\* whenever that list holds a variant of "inbox".
InboxResolvesToLiveName ==
    (/\ call.op = "resolveMailbox" /\ ret # Pending
     /\ call.mailbox = sinbox /\ call.fetched
     /\ \E n \in Range(call.live) : toLowerCase(n) = sinbox)
        => (ret.kind = "string" /\ ret.val \in Range(call.live))

(***************************************************************************)
(* The facade as a state machine.  Between two invocations the manager is  *)
(* idle; an invocation runs one operation to its end (the operations are   *)
(* synchronous) and leaves its arguments in call, its result in ret and    *)
(* the external executions it issued in trace; Return hands the result     *)
(* back.  Mail's accounts change behind the manager's back.                *)
(***************************************************************************)
siCloud == <<"i","C","l","o","u","d">>
sok == <<"o","k">>
strue == <<"t","r","u","e">>
sFieldSep == <<"|","|","|">>
sItemSep == <<"|","|","|","I","T","E","M","|","|","|">>
sErrorPrefix == <<"e","r","r","o","r",":">>
sNotFound == <<"e","r","r","o","r",":","M","e","s","s","a","g","e"," ","n","o","t"," ","f","o","u","n","d">>
sNotAuthorized == <<"n","o","t"," ","a","u","t","h","o","r","i","z","e","d">>
sNotPermitted == <<"n","o","t"," ","p","e","r","m","i","t","t","e","d">>

RetList(items) == [kind |-> "list", val |-> items]
RetBool(b) == [kind |-> "bool", val |-> b]
RetNull == [kind |-> "null", val |-> null]
RetNumber(n) == [kind |-> "number", val |-> n]
RetRecord(r) == [kind |-> "record", val |-> r]
RetThrow == [kind |-> "throw", val |-> TypeError]

IdleCall == [op |-> "idle"]
Idle == call = IdleCall

\* The account lists Mail may hold.
AccountWorlds == {<<>>, <<sWork>>, <<sHome, sWork>>}

\* What the operations are called with.
AccountArgs == {undefined, sHome}

(***************************************************************************)
(* Accounts.                                                               *)
(***************************************************************************)
listAccountsScript == buildAppLevelScript(Command("listAccounts", <<>>))

\* What the listAccounts script returns for Mail's accounts (lines 1052-1064):
\* name|||email|||enabled per account, joined by |||ITEM|||.
AccountsOutput(names) ==
    Join([i \in 1..Len(names) |-> names[i] \o sFieldSep \o <<"e">> \o sFieldSep \o strue],
         sItemSep)

\* The results an execution of the listAccounts script may have: Mail's
\* accounts, a failure, or a record cut short.
ListAccountsOutcomes == {Ok(AccountsOutput(mailAccounts)), Fail(sTimeout), Ok(sWork)}

\* lines 1076-1088: one account per item of at least 3 fields.
RECURSIVE ParseAccounts(_)
ParseAccounts(items) ==
    IF items = <<>> THEN <<>>
    ELSE LET parts == Split(Head(items), sFieldSep)
         IN  (IF Len(parts) < 3 THEN <<>>
              ELSE <<[name |-> parts[1], email |-> parts[2], enabled |-> parts[3] = strue]>>)
             \o ParseAccounts(Tail(items))

\* listAccounts(), given the result of its execution: the accounts it returns.
listAccounts(result) ==
    IF ~result.success THEN <<>>
    ELSE IF ~Truthy(Trim(result.output)) THEN <<>>
    ELSE ParseAccounts(Split(result.output, sItemSep))

\* A slip in resolveAccount: the first account found is returned but not cached.
resolveAccountNoCache(account, cached, result) ==
    IF Truthy(account) THEN [value |-> account, cache |-> cached, trace |-> <<>>]
    ELSE IF Truthy(cached) THEN [value |-> cached, cache |-> cached, trace |-> <<>>]
    ELSE LET accounts == listAccounts(result)
             executed == <<Executed(listAccountsScript, result)>>
         IN  IF Len(accounts) > 0
             THEN [value |-> accounts[1].name, cache |-> cached, trace |-> executed]
             ELSE [value |-> siCloud, cache |-> cached, trace |-> executed]

\* A slip in resolveAccount: the last-resort label is cached like an account.
resolveAccountCachingFallback(account, cached, result) ==
    IF Truthy(account) THEN [value |-> account, cache |-> cached, trace |-> <<>>]
    ELSE IF Truthy(cached) THEN [value |-> cached, cache |-> cached, trace |-> <<>>]
    ELSE LET accounts == listAccounts(result)
             executed == <<Executed(listAccountsScript, result)>>
         IN  IF Len(accounts) > 0
             THEN [value |-> accounts[1].name, cache |-> accounts[1].name, trace |-> executed]
             ELSE [value |-> siCloud, cache |-> siCloud, trace |-> executed]

\* A slip in resolveAccount: an account given by the caller becomes the default.
resolveAccountCachingExplicit(account, cached, result) ==
    IF Truthy(account) THEN [value |-> account, cache |-> account, trace |-> <<>>]
    ELSE IF Truthy(cached) THEN [value |-> cached, cache |-> cached, trace |-> <<>>]
    ELSE LET accounts == listAccounts(result)
             executed == <<Executed(listAccountsScript, result)>>
         IN  IF Len(accounts) > 0
             THEN [value |-> accounts[1].name, cache |-> accounts[1].name, trace |-> executed]
             ELSE [value |-> siCloud, cache |-> cached, trace |-> executed]

\* A slip in resolveAccount: the cache is not consulted, the accounts are listed
\* on every call without an explicit account.
resolveAccountAlwaysLists(account, cached, result) ==
    IF Truthy(account) THEN [value |-> account, cache |-> cached, trace |-> <<>>]
    ELSE LET accounts == listAccounts(result)
             executed == <<Executed(listAccountsScript, result)>>
         IN  IF Len(accounts) > 0
             THEN [value |-> accounts[1].name, cache |-> accounts[1].name, trace |-> executed]
             ELSE [value |-> siCloud, cache |-> cached, trace |-> executed]

\* resolveAccount(account), given the cached default and the result the
\* listAccounts execution has if it is issued: the account to use, the cache
\* afterwards, and the executions issued.
resolveAccount(account, cached, result) ==
    IF Truthy(account) THEN [value |-> account, cache |-> cached, trace |-> <<>>]
    ELSE IF Truthy(cached) THEN [value |-> cached, cache |-> cached, trace |-> <<>>]
    ELSE LET accounts == listAccounts(result)
             executed == <<Executed(listAccountsScript, result)>>
         IN  IF Len(accounts) > 0
             THEN [value |-> accounts[1].name, cache |-> accounts[1].name, trace |-> executed]
             ELSE [value |-> siCloud, cache |-> cached, trace |-> executed]

\* The results of the listAccounts execution that resolveAccount can see: it
\* issues one only without an explicit account and without a cached default.
AccountOutcomesFor(account, cached) ==
    IF Truthy(account) \/ Truthy(cached) THEN {Fail(sTimeout)} ELSE ListAccountsOutcomes

ListAccounts ==
    /\ Idle
    /\ \E r \in ListAccountsOutcomes :
        /\ call' = [op |-> "listAccounts"]
        /\ ret' = RetList(listAccounts(r))
        /\ trace' = <<Executed(listAccountsScript, r)>>
    /\ UNCHANGED <<mailAccounts, defaultAccount>>

(***************************************************************************)
(* Mailboxes.                                                              *)
(***************************************************************************)
\* String.prototype... parseInt(text) || 0: the leading decimal digits of the
\* text (after white space and a sign), 0 when there are none.
Digits == <<"0","1","2","3","4","5","6","7","8","9">>
IsDigit(c) == \E d \in 1..10 : Digits[d] = c
DigitValue(c) == (CHOOSE d \in 1..10 : Digits[d] = c) - 1
RECURSIVE LeadingNumber(_, _)
LeadingNumber(s, acc) ==
    IF s # <<>> /\ IsDigit(Head(s)) THEN LeadingNumber(Tail(s), 10 * acc + DigitValue(Head(s)))
    ELSE acc
parseIntOrZero(text) ==
    LET s == TrimStart(text)
    IN  IF s # <<>> /\ Head(s) = "-" THEN 0 - LeadingNumber(Tail(s), 0)
        ELSE IF s # <<>> /\ Head(s) = "+" THEN LeadingNumber(Tail(s), 0)
        ELSE LeadingNumber(s, 0)

listMailboxesScript(account) ==
    buildAccountScopedScript(account, Command("listMailboxes", <<>>))

sMailboxesOutput == <<"I","N","B","O","X","|","|","|","2","|","|","|","5","|","|","|","I","T","E","M","|","|","|","S","e","n","t"," ","I","t","e","m","s","|","|","|","0","|","|","|","3">>
sShortRecord == <<"I","N","B","O","X","|","|","|","2">>

\* The results an execution of the listMailboxes script may have.
ListMailboxesOutcomes == {Ok(sMailboxesOutput), Ok(sShortRecord), Ok(<<>>), Fail(sTimeout)}

\* lines 992-1005: one mailbox per item of at least 3 fields.
RECURSIVE ParseMailboxes(_, _)
ParseMailboxes(items, account) ==
    IF items = <<>> THEN <<>>
    ELSE LET parts == Split(Head(items), sFieldSep)
         IN  (IF Len(parts) < 3 THEN <<>>
              ELSE <<[name |-> parts[1], account |-> account,
                      unreadCount |-> parseIntOrZero(parts[2]),
                      messageCount |-> parseIntOrZero(parts[3])]>>)
             \o ParseMailboxes(Tail(items), account)

\* listMailboxes(account) after resolveAccount, given the result of its execution.
listMailboxes(targetAccount, result) ==
    IF ~result.success THEN <<>>
    ELSE IF ~Truthy(Trim(result.output)) THEN <<>>
    ELSE ParseMailboxes(Split(result.output, sItemSep), targetAccount)

ListMailboxes ==
    /\ Idle
    /\ \E account \in AccountArgs, r \in ListMailboxesOutcomes :
      \E rA \in AccountOutcomesFor(account, defaultAccount) :
        LET acc == resolveAccount(account, defaultAccount, rA)
        IN  /\ call' = [op |-> "listMailboxes", account |-> account]
            /\ defaultAccount' = acc.cache
            /\ ret' = RetList(listMailboxes(acc.value, r))
            /\ trace' = acc.trace \o <<Executed(listMailboxesScript(acc.value), r)>>
    /\ UNCHANGED mailAccounts

(***************************************************************************)
(* Actions on one message, found by id.                                    *)
(***************************************************************************)
sId == <<"7">>
sIdQuoted == <<"7","\"">>
MessageIds == {sId, sIdQuoted}

\* The results an execution of a find-by-id script may have: done, the
\* script's own error text, or a failed execution.
ByIdOutcomes == {Ok(sok), Ok(sNotFound), Fail(sTimeout)}

sUpperError == <<"E","R","R","O","R",":","x">>

\* The results a single action is run against: those above and a successful
\* execution whose output begins "ERROR:".
ActionOutcomes == ByIdOutcomes \cup {Ok(sUpperError)}

\* A slip in the result handling: the output of the script is not looked at.
actionSucceededIgnoringOutput(result) == result.success

\* findMessageScript(id, operation): the id goes into the script as it is given
\* (messages of mb whose id is ${id}).
findMessageScript(id, operation) ==
    buildAppLevelScript(Command(operation, <<Arg("id", id, id)>>))

\* lines 726-731 and the like: false on a failed execution or an "error:" output.
actionSucceeded(result) ==
    IF ~result.success \/ StartsWith(result.output, sErrorPrefix) THEN FALSE ELSE TRUE

\* The five operations built on findMessageScript, with the script lines
\* each one passes.
ByIdOperation == [
    markAsRead |-> "set read status of msg to true",
    markAsUnread |-> "set read status of msg to false",
    flagMessage |-> "set flagged status of msg to true",
    unflagMessage |-> "set flagged status of msg to false",
    deleteMessage |-> "delete msg"]

ByIdAction(op) ==
    /\ Idle
    /\ \E id \in MessageIds, r \in ActionOutcomes :
        /\ call' = [op |-> op, id |-> id]
        /\ ret' = RetBool(actionSucceeded(r))
        /\ trace' = <<Executed(findMessageScript(id, ByIdOperation[op]), r)>>
    /\ UNCHANGED <<mailAccounts, defaultAccount>>

MarkAsRead == ByIdAction("markAsRead")
MarkAsUnread == ByIdAction("markAsUnread")
FlagMessage == ByIdAction("flagMessage")
UnflagMessage == ByIdAction("unflagMessage")
DeleteMessage == ByIdAction("deleteMessage")

(***************************************************************************)
(* Sending and drafting.                                                   *)
(***************************************************************************)
sDraftCreated == <<"d","r","a","f","t"," ","c","r","e","a","t","e","d">>
sPlain == <<"S">>
sQuoted == <<"\\","\"">>
sAddr == <<"a","@","x">>
sAddrQuoted == <<"\"","@","x">>

\* What the operations are called with.
Texts == {sPlain, sQuoted}
RecipientLists == {<<sAddr>>, <<sAddr, sAddrQuoted>>}
OptionalRecipients == {undefined, <<sAddrQuoted>>}

\* The recipient lines: one interpolation per address, escaped.
RecipientArgs(param, addrs) ==
    IF addrs = undefined THEN <<>>
    ELSE [i \in 1..Len(addrs) |-> Arg(param, addrs[i], escapeForAppleScript(addrs[i]))]

\* The script sendEmail and createDraft build (lines 473-515, 545-585):
\* subject and body, the recipients, and the sender when an account is given.
composeScript(template, to, subject, body, cc, bcc, account) ==
    buildAppLevelScript(Command(
        IF Truthy(account) THEN template \o " with sender" ELSE template,
        <<Arg("subject", subject, escapeForAppleScript(subject)),
          Arg("body", body, escapeForAppleScript(body))>>
        \o RecipientArgs("to", to) \o RecipientArgs("cc", cc) \o RecipientArgs("bcc", bcc)
        \o (IF Truthy(account)
            THEN <<Arg("account", account, escapeForAppleScript(account))>> ELSE <<>>)))

SendOutcomes == {Ok(ssent), Ok(<<>>), Fail(sTimeout)}
DraftOutcomes == {Ok(sDraftCreated), Ok(<<>>), Fail(sTimeout)}

\* A slip in sendEmail: a failed execution is not told from a successful one.
sendEmailIgnoringFailure(result) == Includes(result.output, ssent) \/ ~result.success

\* sendEmail, lines 516-523, given the result of its execution.
sendEmail(result) == IF ~result.success THEN FALSE ELSE Includes(result.output, ssent)

\* createDraft, lines 586-593.
createDraft(result) == IF ~result.success THEN FALSE ELSE Includes(result.output, sDraftCreated)

SendEmail ==
    /\ Idle
    /\ \E to \in RecipientLists, subject \in Texts, body \in Texts,
          cc \in OptionalRecipients, bcc \in OptionalRecipients, account \in AccountArgs,
          r \in SendOutcomes :
        /\ call' = [op |-> "sendEmail", to |-> to, subject |-> subject, body |-> body,
                    cc |-> cc, bcc |-> bcc, account |-> account]
        /\ ret' = RetBool(sendEmail(r))
        /\ trace' = <<Executed(
               composeScript("send new outgoing message", to, subject, body, cc, bcc, account), r)>>
    /\ UNCHANGED <<mailAccounts, defaultAccount>>

CreateDraft ==
    /\ Idle
    /\ \E to \in RecipientLists, subject \in Texts, body \in Texts,
          cc \in OptionalRecipients, bcc \in OptionalRecipients, account \in AccountArgs,
          r \in DraftOutcomes :
        /\ call' = [op |-> "createDraft", to |-> to, subject |-> subject, body |-> body,
                    cc |-> cc, bcc |-> bcc, account |-> account]
        /\ ret' = RetBool(createDraft(r))
        /\ trace' = <<Executed(
               composeScript("make new outgoing message", to, subject, body, cc, bcc, account), r)>>
    /\ UNCHANGED <<mailAccounts, defaultAccount>>

\* replyToMessage (lines 605-630): the id as given, the body escaped; the
\* script sends the reply only when send is true.
replyScript(id, body, replyAll, send) ==
    buildAppLevelScript(Command(
        (IF replyAll THEN "reply msg with reply to all" ELSE "reply msg")
            \o (IF send THEN ", send theReply" ELSE ""),
        <<Arg("id", id, id), Arg("body", body, escapeForAppleScript(body))>>))

\* A message id that carries a line of script after a line break.
sIdInjected == <<"7","\n","s","e","n","d"," ","m">>

\* The ids replyToMessage and forwardMessage are called with.
ReplyIds == MessageIds \cup {sIdInjected}

ReplyToMessage ==
    /\ Idle
    /\ \E id \in ReplyIds, body \in Texts, replyAll \in BOOLEAN, send \in BOOLEAN,
          r \in ActionOutcomes :
        /\ call' = [op |-> "replyToMessage", id |-> id, body |-> body,
                    replyAll |-> replyAll, send |-> send]
        /\ ret' = RetBool(actionSucceeded(r))
        /\ trace' = <<Executed(replyScript(id, body, replyAll, send), r)>>
    /\ UNCHANGED <<mailAccounts, defaultAccount>>

\* forwardMessage (lines 651-682): the id as given, the recipients escaped, the
\* body escaped and present only when it is not empty.
forwardScript(id, to, body, send) ==
    LET safeBody == IF Truthy(body) THEN escapeForAppleScript(body) ELSE <<>>
    IN  buildAppLevelScript(Command(
            "forward msg" \o (IF send THEN ", send theForward" ELSE ""),
            <<Arg("id", id, id)>> \o RecipientArgs("to", to)
            \o (IF Truthy(safeBody) THEN <<Arg("body", body, safeBody)>> ELSE <<>>)))

ForwardMessage ==
    /\ Idle
    /\ \E id \in ReplyIds, to \in RecipientLists, body \in Texts \cup {undefined},
          send \in BOOLEAN, r \in ActionOutcomes :
        /\ call' = [op |-> "forwardMessage", id |-> id, to |-> to, body |-> body,
                    send |-> send]
        /\ ret' = RetBool(actionSucceeded(r))
        /\ trace' = <<Executed(forwardScript(id, to, body, send), r)>>
    /\ UNCHANGED <<mailAccounts, defaultAccount>>

(***************************************************************************)
(* Moving a message, the batch operations, unread counts.                  *)
(***************************************************************************)
\* The mailbox names an operation is called with.
MailboxArgs == {ssent, sconstructor}

\* The results an execution of the mailbox-names script may have.
MailboxNamesOutcomes == {Ok(MailboxNamesOutput(<<sINBOX, sSentItems>>)), Fail(sTimeout)}

\* lines 803-822: the id as given, the mailbox and the account escaped.
moveScript(id, targetMailbox, targetAccount) ==
    buildAppLevelScript(Command("move msg to destMailbox",
        <<Arg("id", id, id),
          Arg("mailbox", targetMailbox, escapeForAppleScript(targetMailbox)),
          Arg("account", targetAccount, escapeForAppleScript(targetAccount))>>))

\* moveMessage(id, mailbox, account), given the cached default and the results
\* of the executions it may issue: listAccounts, the mailbox names, the move.
moveMessage(id, mailbox, account, cached, rA, rM, r) ==
    LET acc == resolveAccount(account, cached, rA)
        targetMailbox == resolveMailbox(mailbox, acc.value, rM)
        resolved == acc.trace \o <<Executed(mailboxNamesScript(acc.value), rM)>>
    IN  IF targetMailbox = TypeError
        THEN [value |-> FALSE, threw |-> TRUE, cache |-> acc.cache, trace |-> resolved]
        ELSE [value |-> actionSucceeded(r), threw |-> FALSE, cache |-> acc.cache,
              trace |-> resolved \o <<Executed(moveScript(id, targetMailbox, acc.value), r)>>]

\* Every way moveMessage can run.
moveMessageRuns(id, mailbox, account, cached) ==
    {moveMessage(id, mailbox, account, cached, rA, rM, r) :
        rA \in AccountOutcomesFor(account, cached),
        rM \in MailboxNamesOutcomes, r \in ByIdOutcomes}

MoveMessage ==
    /\ Idle
    /\ \E id \in MessageIds, mailbox \in MailboxArgs, account \in AccountArgs :
        \E rA \in AccountOutcomesFor(account, defaultAccount),
           rM \in MailboxNamesOutcomes, r \in ActionOutcomes :
            LET run == moveMessage(id, mailbox, account, defaultAccount, rA, rM, r)
            IN  /\ call' = [op |-> "moveMessage", id |-> id, mailbox |-> mailbox,
                            account |-> account]
                /\ defaultAccount' = run.cache
                /\ ret' = IF run.threw THEN RetThrow ELSE RetBool(run.value)
                /\ trace' = run.trace
    /\ UNCHANGED mailAccounts

\* The id lists a batch operation is called with (duplicates allowed).
IdLists == SeqsUpTo(MessageIds, MaxIds)

\* A slip in the record: the error text is set whatever the outcome.
BatchRecordAlwaysWithError(id, success, message) ==
    [id |-> id, success |-> success, error |-> <<message>>]

BatchRecord(id, success, message) ==
    [id |-> id, success |-> success, error |-> IF success THEN undefined ELSE <<message>>]

\* batchDeleteMessages and batchMarkAsRead (lines 844-857, 888-901): the
\* single operation on each id in turn, one record per id; rs[i] is the result
\* of the execution for ids[i].
RECURSIVE batchById(_, _, _, _)
batchById(ids, rs, operation, message) ==
    IF ids = <<>> THEN [results |-> <<>>, trace |-> <<>>]
    ELSE LET success == actionSucceeded(Head(rs))
             rest == batchById(Tail(ids), Tail(rs), operation, message)
         IN  [results |-> <<BatchRecord(Head(ids), success, message)>> \o rest.results,
              trace |-> <<Executed(findMessageScript(Head(ids), operation), Head(rs))>>
                        \o rest.trace]

BatchDeleteMessages ==
    /\ Idle
    /\ \E ids \in IdLists :
        \E rs \in [1..Len(ids) -> ByIdOutcomes] :
            LET run == batchById(ids, rs, ByIdOperation.deleteMessage, "Failed to delete message")
            IN  /\ call' = [op |-> "batchDeleteMessages", ids |-> ids]
                /\ ret' = RetList(run.results)
                /\ trace' = run.trace
    /\ UNCHANGED <<mailAccounts, defaultAccount>>

BatchMarkAsRead ==
    /\ Idle
    /\ \E ids \in IdLists :
        \E rs \in [1..Len(ids) -> ByIdOutcomes] :
            LET run == batchById(ids, rs, ByIdOperation.markAsRead,
                                 "Failed to mark message as read")
            IN  /\ call' = [op |-> "batchMarkAsRead", ids |-> ids]
                /\ ret' = RetList(run.results)
                /\ trace' = run.trace
    /\ UNCHANGED <<mailAccounts, defaultAccount>>

\* batchMoveMessages (lines 867-880): moveMessage on each id in turn; an
\* exception thrown by moveMessage ends the loop and leaves batchMoveMessages.
\* Every way it can run from the given cached default.
RECURSIVE batchMoveMessagesRuns(_, _, _, _)
batchMoveMessagesRuns(ids, mailbox, account, cached) ==
    IF ids = <<>>
    THEN {[results |-> <<>>, threw |-> FALSE, cache |-> cached, trace |-> <<>>]}
    ELSE UNION {
        IF first.threw
        THEN {[results |-> <<>>, threw |-> TRUE, cache |-> first.cache, trace |-> first.trace]}
        ELSE {[results |-> <<BatchRecord(Head(ids), first.value, "Failed to move message")>>
                           \o rest.results,
               threw |-> rest.threw, cache |-> rest.cache,
               trace |-> first.trace \o rest.trace] :
                 rest \in batchMoveMessagesRuns(Tail(ids), mailbox, account, first.cache)} :
        first \in moveMessageRuns(Head(ids), mailbox, account, cached)}

BatchMoveMessages ==
    /\ Idle
    /\ \E ids \in IdLists, mailbox \in MailboxArgs, account \in AccountArgs :
        \E run \in batchMoveMessagesRuns(ids, mailbox, account, defaultAccount) :
            /\ call' = [op |-> "batchMoveMessages", ids |-> ids, mailbox |-> mailbox,
                        account |-> account]
            /\ defaultAccount' = run.cache
            /\ ret' = IF run.threw THEN RetThrow ELSE RetList(run.results)
            /\ trace' = run.trace
    /\ UNCHANGED mailAccounts

\* getUnreadCount (lines 1013-1041): the count of one mailbox, or the total
\* over the mailboxes of the account.
unreadCountScript(mailbox, targetAccount, targetMailbox) ==
    buildAccountScopedScript(targetAccount,
        IF Truthy(mailbox)
        THEN Command("unread count of mailbox",
                     <<Arg("mailbox", targetMailbox, escapeForAppleScript(targetMailbox))>>)
        ELSE Command("total unread count of mailboxes", <<>>))

UnreadCountOutcomes == {Ok(<<"3">>), Ok(<<>>), Fail(sTimeout)}

getUnreadCount(mailbox, account, cached, rA, rM, r) ==
    LET acc == resolveAccount(account, cached, rA)
        targetMailbox == IF Truthy(mailbox) THEN resolveMailbox(mailbox, acc.value, rM)
                         ELSE undefined
        resolved == acc.trace \o (IF Truthy(mailbox)
                                  THEN <<Executed(mailboxNamesScript(acc.value), rM)>>
                                  ELSE <<>>)
    IN  IF targetMailbox = TypeError
        THEN [value |-> 0, threw |-> TRUE, cache |-> acc.cache, trace |-> resolved]
        ELSE [value |-> IF ~r.success THEN 0 ELSE parseIntOrZero(r.output),
              threw |-> FALSE, cache |-> acc.cache,
              trace |-> resolved
                  \o <<Executed(unreadCountScript(mailbox, acc.value, targetMailbox), r)>>]

GetUnreadCount ==
    /\ Idle
    /\ \E mailbox \in MailboxArgs \cup {undefined}, account \in AccountArgs :
        \E rA \in AccountOutcomesFor(account, defaultAccount),
           rM \in (IF Truthy(mailbox) THEN MailboxNamesOutcomes ELSE {Fail(sTimeout)}),
           r \in UnreadCountOutcomes :
            LET run == getUnreadCount(mailbox, account, defaultAccount, rA, rM, r)
            IN  /\ call' = [op |-> "getUnreadCount", mailbox |-> mailbox, account |-> account]
                /\ defaultAccount' = run.cache
                /\ ret' = IF run.threw THEN RetThrow ELSE RetNumber(run.value)
                /\ trace' = run.trace
    /\ UNCHANGED mailAccounts

(***************************************************************************)
(* Listing, searching and fetching messages.                               *)
(***************************************************************************)
sDatePrefix == <<"d","a","t","e">>
sAt == <<" ","a","t"," ">>
sDateNormalized == <<"1","/","2","/","2","0","2","5"," ","3",":","4","4"," ","P","M">>
sNow == <<"<now>">>

\* The texts new Date(...) parses; every other text gives an invalid Date.
ParsableDates == {sDateNormalized}

\* String.prototype.replace with a string pattern: the first occurrence only.
ReplaceFirst(s, p, rep) ==
    LET i == IndexOf(s, p)
    IN  IF i = 0 THEN s ELSE SubSeq(s, 1, i - 1) \o rep \o SubSeq(s, i + Len(p), Len(s))

\* parseAppleScriptDate: strip /^date\s+/, turn the first " at " into " ",
\* parse; the current time when the text does not parse.  A Date is
\* represented by the text it was parsed from, the current time by sNow.
parseAppleScriptDate(appleScriptDate) ==
    LET afterDate == SubSeq(appleScriptDate, Len(sDatePrefix) + 1, Len(appleScriptDate))
        withoutPrefix == IF StartsWith(appleScriptDate, sDatePrefix)
                            /\ afterDate # <<>> /\ Head(afterDate) \in WhiteSpace
                         THEN TrimStart(afterDate) ELSE appleScriptDate
        normalized == ReplaceFirst(withoutPrefix, sAt, <<" ">>)
    IN  IF normalized \in ParsableDates THEN normalized ELSE sNow

\* Number to text, as a template literal renders it.
RECURSIVE DecimalText(_)
DecimalText(n) ==
    IF n < 10 THEN <<Digits[n + 1]>> ELSE DecimalText(n \div 10) \o <<Digits[(n % 10) + 1]>>

\* The limits the listing operations are called with; 50 is the default.
Limits == {1, 50}

sMessagesOutput == <<"7","|","|","|","S","|","|","|","a","@","x","|","|","|","d","a","t","e"," ","1","/","2","/","2","0","2","5"," ","a","t"," ","3",":","4","4"," ","P","M","|","|","|","t","r","u","e","|","|","|","f","a","l","s","e","|","|","|","I","T","E","M","|","|","|"," ","8","|","|","|","T","|","|","|","b","|","|","|","x","|","|","|","f","a","l","s","e","|","|","|","t","r","u","e">>
sShortMessage == <<"7","|","|","|","S","|","|","|","a","@","x">>
sMessageRecord == <<"S","|","|","|","a","@","x","|","|","|","d","a","t","e"," ","1","/","2","/","2","0","2","5"," ","a","t"," ","3",":","4","4"," ","P","M","|","|","|","t","r","u","e","|","|","|","f","a","l","s","e","|","|","|","f","a","l","s","e","|","|","|","f","a","l","s","e","|","|","|","I","N","B","O","X","|","|","|","W","o","r","k">>

\* The results an execution of a listing or search script may have.
MessageListOutcomes == {Ok(sMessagesOutput), Ok(sShortMessage), Ok(<<>>), Fail(sTimeout)}

\* parseMessageList (lines 427-452): one message per item of at least 6 fields.
RECURSIVE parseMessageList(_, _, _)
parseMessageList(items, mailbox, account) ==
    IF items = <<>> THEN <<>>
    ELSE LET parts == Split(Head(items), sFieldSep)
         IN  (IF Len(parts) < 6 THEN <<>>
              ELSE <<[id |-> Trim(parts[1]), subject |-> parts[2], sender |-> parts[3],
                      recipients |-> <<>>, dateReceived |-> parseAppleScriptDate(parts[4]),
                      isRead |-> parts[5] = strue, isFlagged |-> parts[6] = strue,
                      isJunk |-> FALSE, isDeleted |-> FALSE,
                      mailbox |-> mailbox, account |-> account, hasAttachments |-> FALSE]>>)
             \o parseMessageList(Tail(items), mailbox, account)

listMessagesScript(targetAccount, targetMailbox, limit) ==
    buildAccountScopedScript(targetAccount,
        Command("messages of theMailbox",
                <<Arg("mailbox", targetMailbox, escapeForAppleScript(targetMailbox)),
                  Arg("limit", limit, DecimalText(limit))>>))

\* A slip in the search condition: the filter is added whether or not a query
\* was given.
sundefinedText == <<"u","n","d","e","f","i","n","e","d">>
searchMessagesScriptAlwaysFiltering(query, targetAccount, targetMailbox, limit) ==
    LET text == IF query = undefined THEN sundefinedText ELSE query
    IN  buildAccountScopedScript(targetAccount,
            Command("messages of theMailbox whose subject contains or sender contains",
                    <<Arg("mailbox", targetMailbox, escapeForAppleScript(targetMailbox)),
                      Arg("query", text, escapeForAppleScript(text)),
                      Arg("query", text, escapeForAppleScript(text)),
                      Arg("limit", limit, DecimalText(limit))>>))

\* lines 233-259: the query, escaped, stands twice in the search condition.
searchMessagesScript(query, targetAccount, targetMailbox, limit) ==
    buildAccountScopedScript(targetAccount,
        IF Truthy(query)
        THEN Command("messages of theMailbox whose subject contains or sender contains",
                     <<Arg("mailbox", targetMailbox, escapeForAppleScript(targetMailbox)),
                       Arg("query", query, escapeForAppleScript(query)),
                       Arg("query", query, escapeForAppleScript(query)),
                       Arg("limit", limit, DecimalText(limit))>>)
        ELSE Command("messages of theMailbox ",
                     <<Arg("mailbox", targetMailbox, escapeForAppleScript(targetMailbox)),
                       Arg("limit", limit, DecimalText(limit))>>))

\* lines 264-271 and 414-421, after the script has been executed.
messagesFrom(result, targetMailbox, targetAccount) ==
    IF ~result.success THEN <<>>
    ELSE IF ~Truthy(Trim(result.output)) THEN <<>>
    ELSE parseMessageList(Split(result.output, sItemSep), targetMailbox, targetAccount)

listMessages(mailbox, account, limit, cached, rA, rM, r) ==
    LET acc == resolveAccount(account, cached, rA)
        requestedMailbox == IF Truthy(mailbox) THEN mailbox ELSE sINBOX
        targetMailbox == resolveMailbox(requestedMailbox, acc.value, rM)
        resolved == acc.trace \o <<Executed(mailboxNamesScript(acc.value), rM)>>
    IN  IF targetMailbox = TypeError
        THEN [value |-> <<>>, threw |-> TRUE, cache |-> acc.cache, trace |-> resolved]
        ELSE [value |-> messagesFrom(r, targetMailbox, acc.value),
              threw |-> FALSE, cache |-> acc.cache,
              trace |-> resolved
                  \o <<Executed(listMessagesScript(acc.value, targetMailbox, limit), r)>>]

searchMessages(query, mailbox, account, limit, cached, rA, rM, r) ==
    LET acc == resolveAccount(account, cached, rA)
        requestedMailbox == IF Truthy(mailbox) THEN mailbox ELSE sINBOX
        targetMailbox == resolveMailbox(requestedMailbox, acc.value, rM)
        resolved == acc.trace \o <<Executed(mailboxNamesScript(acc.value), rM)>>
    IN  IF targetMailbox = TypeError
        THEN [value |-> <<>>, threw |-> TRUE, cache |-> acc.cache, trace |-> resolved]
        ELSE [value |-> messagesFrom(r, targetMailbox, acc.value),
              threw |-> FALSE, cache |-> acc.cache,
              trace |-> resolved
                  \o <<Executed(searchMessagesScript(query, acc.value, targetMailbox, limit), r)>>]

ListMessages ==
    /\ Idle
    /\ \E mailbox \in MailboxArgs \cup {undefined}, account \in AccountArgs, limit \in Limits :
        \E rA \in AccountOutcomesFor(account, defaultAccount),
           rM \in MailboxNamesOutcomes, r \in MessageListOutcomes :
            LET run == listMessages(mailbox, account, limit, defaultAccount, rA, rM, r)
            IN  /\ call' = [op |-> "listMessages", mailbox |-> mailbox, account |-> account,
                            limit |-> limit]
                /\ defaultAccount' = run.cache
                /\ ret' = IF run.threw THEN RetThrow ELSE RetList(run.value)
                /\ trace' = run.trace
    /\ UNCHANGED mailAccounts

SearchMessages ==
    /\ Idle
    /\ \E query \in {undefined, sQuoted}, mailbox \in MailboxArgs \cup {undefined},
          account \in AccountArgs, limit \in Limits :
        \E rA \in AccountOutcomesFor(account, defaultAccount),
           rM \in MailboxNamesOutcomes, r \in MessageListOutcomes :
            LET run == searchMessages(query, mailbox, account, limit, defaultAccount, rA, rM, r)
            IN  /\ call' = [op |-> "searchMessages", query |-> query, mailbox |-> mailbox,
                            account |-> account, limit |-> limit]
                /\ defaultAccount' = run.cache
                /\ ret' = IF run.threw THEN RetThrow ELSE RetList(run.value)
                /\ trace' = run.trace
    /\ UNCHANGED mailAccounts

\* getMessageById (lines 280-333): the id stands in the script as given.
getMessageByIdScript(id) ==
    buildAppLevelScript(Command("messages of mb whose id is", <<Arg("id", id, id)>>))

GetMessageOutcomes ==
    {Ok(sMessageRecord), Ok(sShortMessage), Ok(<<>>), Ok(<<" ">>), Fail(sTimeout)}

getMessageById(id, result) ==
    IF ~result.success \/ ~Truthy(Trim(result.output)) THEN RetNull
    ELSE LET parts == Split(result.output, sFieldSep)
         IN  IF Len(parts) < 9 THEN RetNull
             ELSE RetRecord([id |-> id, subject |-> parts[1], sender |-> parts[2],
                             recipients |-> <<>>,
                             dateReceived |-> parseAppleScriptDate(parts[3]),
                             isRead |-> parts[4] = strue, isFlagged |-> parts[5] = strue,
                             isJunk |-> parts[6] = strue, isDeleted |-> parts[7] = strue,
                             mailbox |-> parts[8], account |-> parts[9],
                             hasAttachments |-> FALSE])

GetMessageById ==
    /\ Idle
    /\ \E id \in MessageIds, r \in GetMessageOutcomes :
        /\ call' = [op |-> "getMessageById", id |-> id]
        /\ ret' = getMessageById(id, r)
        /\ trace' = <<Executed(getMessageByIdScript(id), r)>>
    /\ UNCHANGED <<mailAccounts, defaultAccount>>

(***************************************************************************)
(* healthCheck (lines 1100-1176).                                          *)
(***************************************************************************)
\* The two scripts healthCheck passes to the executor as they stand.
mailCheckScript == [template |-> "tell application Mail to return ok", scope |-> "app",
                    args |-> <<>>]
permCheckScript == [template |-> "tell application Mail to get name of account 1",
                    scope |-> "app", args |-> <<>>]

\* The results of the two executions: the expected answer, another answer,
\* a denied permission in either wording, another failure.
MailCheckOutcomes == {Ok(sok), Ok(<<>>), Fail(sNotAuthorized), Fail(sTimeout)}
PermCheckOutcomes == {Ok(sWork), Fail(sNotAuthorized), Fail(sNotPermitted), Fail(sTimeout)}

\* error?.includes(text): undefined, hence falsy, on a result without error.
ErrorIncludes(result, text) == result.error # undefined /\ Includes(result.error, text)

\* A slip in healthCheck: every check is recorded as passed.
CheckAlwaysPassed(name, passed, message) ==
    [name |-> name, passed |-> TRUE, message |-> message]

Check(name, passed, message) == [name |-> name, passed |-> passed, message |-> message]

\* A slip in healthCheck: the permission check never returns early.
isPermErrorIgnored(permCheck) == FALSE

\* lines 1132-1133
isPermError(permCheck) ==
    ErrorIncludes(permCheck, sNotAuthorized) \/ ErrorIncludes(permCheck, sNotPermitted)

\* healthCheck given the cached default and the results of the executions it
\* may issue: the two checks, listAccounts, and for listMailboxes the account
\* listing of resolveAccount and the mailbox listing.  A message is the
\* sequence of its pieces.
healthCheck(cached, mailCheck, permCheck, rAccounts, rA, rMailboxes) ==
    LET c1 == <<Executed(mailCheckScript, mailCheck)>>
        c2 == c1 \o <<Executed(permCheckScript, permCheck)>>
        c3 == c2 \o <<Executed(listAccountsScript, rAccounts)>>
        accounts == listAccounts(rAccounts)
        permission ==
            IF permCheck.success
            THEN Check("permissions", TRUE, <<"AppleScript automation permissions granted">>)
            ELSE Check("permissions", ~isPermError(permCheck),
                       IF isPermError(permCheck)
                       THEN <<"AppleScript permissions denied. Grant access in System Preferences > Privacy & Security > Automation">>
                       ELSE <<"Permission check returned: ">> \o permCheck.error)
        first == <<Check("mail_app", TRUE, <<"Mail.app is accessible">>), permission>>
    IN  IF ~(mailCheck.success /\ mailCheck.output = sok)
        THEN [value |-> [healthy |-> FALSE,
                         checks |-> <<Check("mail_app", FALSE,
                             <<"Mail.app is not accessible">>
                             \o (IF ErrorIncludes(mailCheck, sNotAuthorized)
                                 THEN <<" (check Automation permissions in System Preferences)">>
                                 ELSE <<>>))>>],
              cache |-> cached, trace |-> c1]
        ELSE IF ~permCheck.success /\ isPermError(permCheck)
        THEN [value |-> [healthy |-> FALSE, checks |-> first], cache |-> cached, trace |-> c2]
        ELSE IF ~(Len(accounts) > 0)
        THEN [value |-> [healthy |-> FALSE,
                         checks |-> first \o <<Check("accounts", FALSE,
                             <<"No Mail accounts found. Set up an account in Mail.app first.">>)>>],
              cache |-> cached, trace |-> c3]
        ELSE LET acc == resolveAccount(accounts[1].name, cached, rA)
                 mailboxes == listMailboxes(acc.value, rMailboxes)
                 checks == first
                     \o <<Check("accounts", TRUE,
                                <<"Found ">> \o DecimalText(Len(accounts)) \o <<" account(s): ">>
                                \o Join([i \in 1..Len(accounts) |-> accounts[i].name],
                                        <<",", " ">>)),
                          Check("operations", TRUE,
                                <<"Basic operations working (">> \o DecimalText(Len(mailboxes))
                                \o <<" mailbox(es) in ">> \o accounts[1].name \o <<")">>)>>
             IN  [value |-> [healthy |-> \A i \in 1..Len(checks) : checks[i].passed,
                             checks |-> checks],
                  cache |-> acc.cache,
                  trace |-> c3 \o acc.trace
                            \o <<Executed(listMailboxesScript(acc.value), rMailboxes)>>]

\* Every way healthCheck can run; a result is drawn only for an execution
\* that is issued.
healthCheckRuns(cached) ==
    UNION {
        IF ~(mailCheck.success /\ mailCheck.output = sok)
        THEN {healthCheck(cached, mailCheck, Fail(sTimeout), Fail(sTimeout), Fail(sTimeout),
                          Fail(sTimeout))}
        ELSE UNION {
            IF ~permCheck.success /\ isPermError(permCheck)
            THEN {healthCheck(cached, mailCheck, permCheck, Fail(sTimeout), Fail(sTimeout),
                              Fail(sTimeout))}
            ELSE UNION {
                IF ~(Len(listAccounts(rAccounts)) > 0)
                THEN {healthCheck(cached, mailCheck, permCheck, rAccounts, Fail(sTimeout),
                                  Fail(sTimeout))}
                ELSE {healthCheck(cached, mailCheck, permCheck, rAccounts, rA, rMailboxes) :
                        rA \in AccountOutcomesFor(listAccounts(rAccounts)[1].name, cached),
                        rMailboxes \in ListMailboxesOutcomes} :
                rAccounts \in ListAccountsOutcomes} :
            permCheck \in PermCheckOutcomes} :
        mailCheck \in MailCheckOutcomes}

HealthCheck ==
    /\ Idle
    /\ \E run \in healthCheckRuns(defaultAccount) :
        /\ call' = [op |-> "healthCheck"]
        /\ defaultAccount' = run.cache
        /\ ret' = RetRecord(run.value)
        /\ trace' = run.trace
    /\ UNCHANGED mailAccounts

(***************************************************************************)
(* Statistics and sync status.  Each account of Mail holds mailboxes with   *)
(* their counts, and an execution gives the output its script has for      *)
(* them, or fails.                                                         *)
(***************************************************************************)
\* The mailboxes an account of Mail holds, with their counts.
MailboxOfMail(name, unread, count) == [name |-> name, unread |-> unread, count |-> count]
MailboxesOf(account) ==
    IF account = sWork THEN <<MailboxOfMail(sINBOX, 2, 5), MailboxOfMail(sSentItems, 0, 3)>>
    ELSE IF account = sHome THEN <<MailboxOfMail(sINBOX, 1, 4)>>
    ELSE <<>>

\* lines 970-979: the output of the listMailboxes script for the mailboxes of
\* the account: name|||unread|||count per mailbox, joined by |||ITEM|||.
MailboxesOutput(boxes) ==
    Join([k \in 1..Len(boxes) |->
            boxes[k].name \o sFieldSep \o DecimalText(boxes[k].unread)
            \o sFieldSep \o DecimalText(boxes[k].count)], sItemSep)

RECURSIVE SumUnread(_)
SumUnread(boxes) == IF boxes = <<>> THEN 0 ELSE Head(boxes).unread + SumUnread(Tail(boxes))

\* lines 1024-1030: the output of the total-unread script within an account.
TotalUnreadOutput(account) == DecimalText(SumUnread(MailboxesOf(account)))

\* The results of an execution against Mail: the output of the script, or a failure.
OutcomesOf(output) == {Ok(output), Fail(sTimeout)}

recentlyReceivedScript == buildAppLevelScript(Command("count recently received", <<>>))
sRecentOutput == <<"1","|","|","|","2","|","|","|","3">>
RecentOutcomes == {Ok(sRecentOutput), Ok(<<"1">>), Fail(sTimeout)}

\* getRecentlyReceivedStats, lines 1291-1303, given the result of its execution.
getRecentlyReceivedStats(result) ==
    IF ~result.success \/ ~Truthy(Trim(result.output))
    THEN [last24h |-> 0, last7d |-> 0, last30d |-> 0]
    ELSE LET parts == Split(result.output, sFieldSep)
         IN  IF Len(parts) < 3 THEN [last24h |-> 0, last7d |-> 0, last30d |-> 0]
             ELSE [last24h |-> parseIntOrZero(parts[1]), last7d |-> parseIntOrZero(parts[2]),
                   last30d |-> parseIntOrZero(parts[3])]

RECURSIVE SumMessageCount(_)
SumMessageCount(mailboxes) ==
    IF mailboxes = <<>> THEN 0
    ELSE Head(mailboxes).messageCount + SumMessageCount(Tail(mailboxes))
RECURSIVE SumUnreadCount(_)
SumUnreadCount(mailboxes) ==
    IF mailboxes = <<>> THEN 0
    ELSE Head(mailboxes).unreadCount + SumUnreadCount(Tail(mailboxes))

\* A slip in the sums: the unread count is added to the messages as well.
accountStatsCountingUnreadTwice(name, mailboxes) ==
    [name |-> name,
     totalMessages |-> SumMessageCount(mailboxes) + SumUnreadCount(mailboxes),
     unreadMessages |-> SumUnreadCount(mailboxes),
     mailboxCount |-> Len(mailboxes),
     mailboxes |-> [k \in 1..Len(mailboxes) |->
                       [name |-> mailboxes[k].name,
                        messageCount |-> mailboxes[k].messageCount,
                        unreadCount |-> mailboxes[k].unreadCount]]]

\* lines 1188-1211: the entry of one account, from the mailboxes listed for it.
accountStats(name, mailboxes) ==
    [name |-> name,
     totalMessages |-> SumMessageCount(mailboxes),
     unreadMessages |-> SumUnreadCount(mailboxes),
     mailboxCount |-> Len(mailboxes),
     mailboxes |-> [k \in 1..Len(mailboxes) |->
                       [name |-> mailboxes[k].name,
                        messageCount |-> mailboxes[k].messageCount,
                        unreadCount |-> mailboxes[k].unreadCount]]]

\* The loop of lines 1187-1212 from account i on: for each account the
\* account resolution and the execution of listMailboxes, and its entry.
\* failing holds the positions of the accounts whose listing fails.
RECURSIVE statsOfAccounts(_, _, _, _, _)
statsOfAccounts(accounts, i, cached, rA, failing) ==
    IF i > Len(accounts) THEN [stats |-> <<>>, cache |-> cached, trace |-> <<>>]
    ELSE LET acc == resolveAccount(accounts[i].name, cached, rA)
             r == IF i \in failing THEN Fail(sTimeout)
                  ELSE Ok(MailboxesOutput(MailboxesOf(acc.value)))
             mailboxes == listMailboxes(acc.value, r)
             rest == statsOfAccounts(accounts, i + 1, acc.cache, rA, failing)
         IN  [stats |-> <<accountStats(accounts[i].name, mailboxes)>> \o rest.stats,
              cache |-> rest.cache,
              trace |-> acc.trace \o <<Executed(listMailboxesScript(acc.value), r)>>
                        \o rest.trace]

RECURSIVE SumTotalMessages(_)
SumTotalMessages(stats) ==
    IF stats = <<>> THEN 0 ELSE Head(stats).totalMessages + SumTotalMessages(Tail(stats))
RECURSIVE SumUnreadMessages(_)
SumUnreadMessages(stats) ==
    IF stats = <<>> THEN 0 ELSE Head(stats).unreadMessages + SumUnreadMessages(Tail(stats))

\* getMailStats (lines 1181-1223), given the results of its executions.
getMailStats(cached, rA, failing, rR) ==
    LET accounts == listAccounts(rA)
        perAccount == statsOfAccounts(accounts, 1, cached, rA, failing)
    IN  [value |-> [totalMessages |-> SumTotalMessages(perAccount.stats),
                    totalUnread |-> SumUnreadMessages(perAccount.stats),
                    accounts |-> perAccount.stats,
                    recentlyReceived |-> getRecentlyReceivedStats(rR)],
         cache |-> perAccount.cache,
         trace |-> <<Executed(listAccountsScript, rA)>> \o perAccount.trace
                   \o <<Executed(recentlyReceivedScript, rR)>>]

GetMailStats ==
    /\ Idle
    /\ \E run \in {getMailStats(defaultAccount, rA, failing, rR) :
                      rA \in OutcomesOf(AccountsOutput(mailAccounts)),
                      failing \in SUBSET (1..Len(mailAccounts)),
                      rR \in RecentOutcomes} :
        /\ call' = [op |-> "getMailStats"]
        /\ defaultAccount' = run.cache
        /\ ret' = RetRecord(run.value)
        /\ trace' = run.trace
    /\ UNCHANGED mailAccounts

syncStatusScript == buildAppLevelScript(Command("sync status", <<>>))
sNotRunning == <<"n","o","t","_","r","u","n","n","i","n","g">>
srunning == <<"r","u","n","n","i","n","g">>

RECURSIVE CountMailboxes(_)
CountMailboxes(accounts) ==
    IF accounts = <<>> THEN 0
    ELSE Len(MailboxesOf(Head(accounts))) + CountMailboxes(Tail(accounts))

\* lines 1320-1340: the output of the sync-status script for Mail's accounts.
SyncStatusOutput(accounts) ==
    srunning \o sFieldSep \o DecimalText(Len(accounts)) \o sFieldSep
    \o DecimalText(CountMailboxes(accounts))

\* getSyncStatus, lines 1344-1377, given the result of its execution.
getSyncStatus(result) ==
    IF ~result.success
    THEN [syncDetected |-> FALSE, pendingUpload |-> 0, recentActivity |-> FALSE,
          secondsSinceLastChange |-> -1, error |-> result.error]
    ELSE IF result.output = sNotRunning
    THEN [syncDetected |-> FALSE, pendingUpload |-> 0, recentActivity |-> FALSE,
          secondsSinceLastChange |-> -1, error |-> <<"Mail.app is not running">>]
    ELSE LET parts == Split(result.output, sFieldSep)
             isRunning == parts[1] = srunning
             accountCount == IF Len(parts) >= 2 THEN parseIntOrZero(parts[2]) ELSE 0
         IN  [syncDetected |-> isRunning /\ accountCount > 0, pendingUpload |-> 0,
              recentActivity |-> isRunning, secondsSinceLastChange |-> 0,
              error |-> undefined]

GetSyncStatus ==
    /\ Idle
    /\ \E r \in OutcomesOf(SyncStatusOutput(mailAccounts)) \cup {Ok(sNotRunning)} :
        /\ call' = [op |-> "getSyncStatus"]
        /\ ret' = RetRecord(getSyncStatus(r))
        /\ trace' = <<Executed(syncStatusScript, r)>>
    /\ UNCHANGED <<mailAccounts, defaultAccount>>

(***************************************************************************)
(* The environment and the specification.                                  *)
(***************************************************************************)
\* The operation's result is handed back; the manager is idle again.
Return ==
    /\ ~Idle
    /\ call' = IdleCall
    /\ ret' = Pending
    /\ trace' = <<>>
    /\ UNCHANGED <<mailAccounts, defaultAccount>>

\* Accounts are added, removed, renamed or reordered in Mail.
ExternalChange ==
    /\ Idle
    /\ \E w \in AccountWorlds : w # mailAccounts /\ mailAccounts' = w
    /\ UNCHANGED <<defaultAccount, call, ret, trace>>

Init ==
    /\ mailAccounts \in AccountWorlds
    /\ defaultAccount = null
    /\ call = IdleCall
    /\ ret = Pending
    /\ trace = <<>>

Next ==
    \/ ListAccounts
    \/ ListMailboxes
    \/ MarkAsRead
    \/ MarkAsUnread
    \/ FlagMessage
    \/ UnflagMessage
    \/ DeleteMessage
    \/ SendEmail
    \/ CreateDraft
    \/ ReplyToMessage
    \/ ForwardMessage
    \/ MoveMessage
    \/ BatchDeleteMessages
    \/ BatchMoveMessages
    \/ BatchMarkAsRead
    \/ GetUnreadCount
    \/ ListMessages
    \/ SearchMessages
    \/ GetMessageById
    \/ HealthCheck
    \/ GetMailStats
    \/ GetSyncStatus
    \/ Return
    \/ ExternalChange

Spec == Init /\ [][Next]_vars

(***************************************************************************)
(* The tool layer (index.ts): a tool invocation is checked against the     *)
(* tool's schema, handed to its handler under withErrorHandling, and       *)
(* answered with a response.                                               *)
(***************************************************************************)
\* successResponse carries no isError field; it is rendered here as FALSE.
successResponse(message) == [text |-> message, isError |-> FALSE]
errorResponse(message) == [text |-> message, isError |-> TRUE]

\* What an invocation leaves: the response, the value the facade returned to
\* the handler, the cached default account, the scripts executed.
RetResponse(response, facade) == [kind |-> "response", val |-> response, facade |-> facade]
Run(response, facade, cache, executed) ==
    [response |-> response, facade |-> facade, cache |-> cache, trace |-> executed]

\* withErrorHandling (lines 78-90): an exception of the handler becomes an
\* error response "<errorPrefix>: <message>".
withErrorHandling(response, facade, errorPrefix) ==
    IF facade.kind = "throw" THEN errorResponse(<<errorPrefix, ": ">> \o facade.val)
    ELSE response

\* A slip in a schema: the .min(1) is left out.
NonEmptyUnchecked(value) == value # undefined

\* z.string().min(1) and z.array(z.string()).min(1)
NonEmpty(value) == value # undefined /\ Len(value) >= 1

\* The request is refused by the schema: no handler runs.
Rejected == RetResponse(errorResponse(<<"Invalid arguments">>), Pending)

\* One invocation of a tool: params drawn from Params, checked by Valid, run
\* by Runs (every way the handler can run from the cached default).
Invoke(name, Params, Valid(_), Runs(_, _)) ==
    /\ Idle
    /\ \E params \in Params :
        /\ call' = [op |-> "tool", name |-> name, params |-> params]
        /\ IF ~Valid(params)
           THEN /\ ret' = Rejected
                /\ trace' = <<>>
                /\ defaultAccount' = defaultAccount
           ELSE \E run \in Runs(params, defaultAccount) :
                /\ ret' = RetResponse(run.response, run.facade)
                /\ trace' = run.trace
                /\ defaultAccount' = run.cache
    /\ UNCHANGED mailAccounts

\* What the tools are called with; an empty text or list where the schema
\* asks for at least one character or element.
ToolIds == {sId, <<>>}
ToolTexts == {sPlain, <<>>}
ToolRecipients == {<<sAddr>>, <<>>}
ToolMailboxes == {ssent, sconstructor, <<>>}
ToolIdLists == SeqsUpTo({sId}, MaxIds)

\* send-email (lines 168-187) and create-draft (lines 191-210)
ComposeParams ==
    [to : ToolRecipients, subject : ToolTexts, body : ToolTexts,
     cc : {undefined}, bcc : {undefined}, account : AccountArgs]
ComposeValid(p) == NonEmpty(p.to) /\ NonEmpty(p.subject) /\ NonEmpty(p.body)

SendEmailRuns(p, cached) ==
    {LET success == sendEmail(r)
     IN  Run(IF ~success
             THEN errorResponse(<<"Failed to send email. Check Mail.app configuration.">>)
             ELSE successResponse(<<"Email sent to ">> \o Join(p.to, <<",", " ">>)),
             RetBool(success), cached,
             <<Executed(composeScript("send new outgoing message", p.to, p.subject, p.body,
                                      p.cc, p.bcc, p.account), r)>>) :
     r \in SendOutcomes}

CreateDraftRuns(p, cached) ==
    {LET success == createDraft(r)
     IN  Run(IF ~success
             THEN errorResponse(<<"Failed to create draft. Check Mail.app configuration.">>)
             ELSE successResponse(<<"Draft created for ">> \o Join(p.to, <<",", " ">>)),
             RetBool(success), cached,
             <<Executed(composeScript("make new outgoing message", p.to, p.subject, p.body,
                                      p.cc, p.bcc, p.account), r)>>) :
     r \in DraftOutcomes}

SendEmailTool == Invoke("send-email", ComposeParams, ComposeValid, SendEmailRuns)
CreateDraftTool == Invoke("create-draft", ComposeParams, ComposeValid, CreateDraftRuns)

\* reply-to-message (lines 214-231) and forward-message (lines 235-254)
ReplyParams == [id : ToolIds, body : ToolTexts, replyAll : {FALSE}, send : BOOLEAN]
ReplyValid(p) == NonEmpty(p.id) /\ NonEmpty(p.body)
ReplyRuns(p, cached) ==
    {LET success == actionSucceeded(r)
     IN  Run(IF ~success
             THEN errorResponse(<<"Failed to reply to message \"">> \o p.id \o <<"\"">>)
             ELSE successResponse(IF p.send THEN <<"Reply sent">>
                                  ELSE <<"Reply saved as draft">>),
             RetBool(success), cached,
             <<Executed(replyScript(p.id, p.body, p.replyAll, p.send), r)>>) :
     r \in ByIdOutcomes}

ForwardParams == [id : ToolIds, to : ToolRecipients, body : {undefined}, send : BOOLEAN]
ForwardValid(p) == NonEmpty(p.id) /\ NonEmpty(p.to)
ForwardRuns(p, cached) ==
    {LET success == actionSucceeded(r)
     IN  Run(IF ~success
             THEN errorResponse(<<"Failed to forward message \"">> \o p.id \o <<"\"">>)
             ELSE successResponse(IF p.send
                                  THEN <<"Message forwarded to ">> \o Join(p.to, <<",", " ">>)
                                  ELSE <<"Forward saved as draft">>),
             RetBool(success), cached,
             <<Executed(forwardScript(p.id, p.to, p.body, p.send), r)>>) :
     r \in ByIdOutcomes}

ReplyToMessageTool == Invoke("reply-to-message", ReplyParams, ReplyValid, ReplyRuns)
ForwardMessageTool == Invoke("forward-message", ForwardParams, ForwardValid, ForwardRuns)

\* mark-as-read, mark-as-unread, flag-message, delete-message (lines 258-326):
\* the facade operation, the failure text around the id, the success text.
ByIdTools == [
    markAsRead |-> [name |-> "mark-as-read", failed |-> <<"Failed to mark message \"", "\" as read">>,
                    done |-> "Message marked as read"],
    markAsUnread |-> [name |-> "mark-as-unread",
                      failed |-> <<"Failed to mark message \"", "\" as unread">>,
                      done |-> "Message marked as unread"],
    flagMessage |-> [name |-> "flag-message", failed |-> <<"Failed to flag message \"", "\"">>,
                     done |-> "Message flagged"],
    deleteMessage |-> [name |-> "delete-message",
                       failed |-> <<"Failed to delete message \"", "\"">>,
                       done |-> "Message deleted"]]

ByIdParams == [id : ToolIds]
ByIdValid(p) == NonEmpty(p.id)
ByIdTool(op) ==
    LET Runs(p, cached) ==
            {LET success == actionSucceeded(r)
             IN  Run(IF ~success
                     THEN errorResponse(<<ByIdTools[op].failed[1]>> \o p.id
                                        \o <<ByIdTools[op].failed[2]>>)
                     ELSE successResponse(<<ByIdTools[op].done>>),
                     RetBool(success), cached,
                     <<Executed(findMessageScript(p.id, ByIdOperation[op]), r)>>) :
             r \in ByIdOutcomes}
    IN  Invoke(ByIdTools[op].name, ByIdParams, ByIdValid, Runs)

MarkAsReadTool == ByIdTool("markAsRead")
MarkAsUnreadTool == ByIdTool("markAsUnread")
FlagMessageTool == ByIdTool("flagMessage")
DeleteMessageTool == ByIdTool("deleteMessage")

\* move-message (lines 330-346)
MoveParams == [id : ToolIds, mailbox : ToolMailboxes, account : AccountArgs]
MoveValid(p) == NonEmpty(p.id) /\ NonEmpty(p.mailbox)
MoveRuns(p, cached) ==
    {LET facade == IF run.threw THEN RetThrow ELSE RetBool(run.value)
     IN  Run(withErrorHandling(
                 IF ~run.value
                 THEN errorResponse(<<"Failed to move message to \"">> \o p.mailbox \o <<"\"">>)
                 ELSE successResponse(<<"Message moved to \"">> \o p.mailbox \o <<"\"">>),
                 facade, "Error moving message"),
             facade, run.cache, run.trace) :
     run \in moveMessageRuns(p.id, p.mailbox, p.account, cached)}

MoveMessageTool == Invoke("move-message", MoveParams, MoveValid, MoveRuns)

\* batch-delete-messages (lines 350-368)
BatchParams == [ids : ToolIdLists]
BatchValid(p) == NonEmpty(p.ids)
BatchDeleteRuns(p, cached) ==
    {LET successCount == Cardinality({i \in 1..Len(run.results) : run.results[i].success})
         failCount == Len(run.results) - successCount
     IN  Run(IF failCount = 0
             THEN successResponse(<<"Successfully deleted ">> \o DecimalText(successCount)
                                  \o <<" message(s)">>)
             ELSE IF successCount = 0
             THEN errorResponse(<<"Failed to delete all ">> \o DecimalText(failCount)
                                \o <<" message(s)">>)
             ELSE successResponse(<<"Deleted ">> \o DecimalText(successCount)
                                  \o <<" message(s), ">> \o DecimalText(failCount)
                                  \o <<" failed">>),
             RetList(run.results), cached, run.trace) :
     run \in {batchById(p.ids, rs, ByIdOperation.deleteMessage, "Failed to delete message") :
                 rs \in [1..Len(p.ids) -> ByIdOutcomes]}}

BatchDeleteMessagesTool ==
    Invoke("batch-delete-messages", BatchParams, BatchValid, BatchDeleteRuns)

\* batch-move-messages (lines 372-394)
BatchMoveParams == [ids : ToolIdLists, mailbox : ToolMailboxes, account : AccountArgs]
BatchMoveValid(p) == NonEmpty(p.ids) /\ NonEmpty(p.mailbox)
BatchMoveRuns(p, cached) ==
    {LET successCount == Cardinality({i \in 1..Len(run.results) : run.results[i].success})
         failCount == Len(run.results) - successCount
         facade == IF run.threw THEN RetThrow ELSE RetList(run.results)
     IN  Run(withErrorHandling(
                 IF failCount = 0
                 THEN successResponse(<<"Successfully moved ">> \o DecimalText(successCount)
                                      \o <<" message(s) to \"">> \o p.mailbox \o <<"\"">>)
                 ELSE IF successCount = 0
                 THEN errorResponse(<<"Failed to move all ">> \o DecimalText(failCount)
                                    \o <<" message(s)">>)
                 ELSE successResponse(<<"Moved ">> \o DecimalText(successCount)
                                      \o <<" message(s) to \"">> \o p.mailbox \o <<"\", ">>
                                      \o DecimalText(failCount) \o <<" failed">>),
                 facade, "Error batch moving messages"),
             facade, run.cache, run.trace) :
     run \in batchMoveMessagesRuns(p.ids, p.mailbox, p.account, cached)}

BatchMoveMessagesTool ==
    Invoke("batch-move-messages", BatchMoveParams, BatchMoveValid, BatchMoveRuns)

\* batch-mark-as-read (lines 398-416)
BatchMarkAsReadRuns(p, cached) ==
    {LET successCount == Cardinality({i \in 1..Len(run.results) : run.results[i].success})
         failCount == Len(run.results) - successCount
     IN  Run(IF failCount = 0
             THEN successResponse(<<"Successfully marked ">> \o DecimalText(successCount)
                                  \o <<" message(s) as read">>)
             ELSE IF successCount = 0
             THEN errorResponse(<<"Failed to mark all ">> \o DecimalText(failCount)
                                \o <<" message(s) as read">>)
             ELSE successResponse(<<"Marked ">> \o DecimalText(successCount)
                                  \o <<" message(s) as read, ">> \o DecimalText(failCount)
                                  \o <<" failed">>),
             RetList(run.results), cached, run.trace) :
     run \in {batchById(p.ids, rs, ByIdOperation.markAsRead,
                        "Failed to mark message as read") :
                 rs \in [1..Len(p.ids) -> ByIdOutcomes]}}

BatchMarkAsReadTool ==
    Invoke("batch-mark-as-read", BatchParams, BatchValid, BatchMarkAsReadRuns)

\* An optional boolean parameter: given with a value, or not given.
NotGiven == [given |-> FALSE, value |-> FALSE]
Given(b) == [given |-> TRUE, value |-> b]

Lines(items) == Join(items, <<"\n">>)

\* list-messages (lines 145-164): unreadOnly is in the schema; the handler
\* takes mailbox, account and limit.
ListMessagesParams ==
    [mailbox : {undefined, sconstructor}, account : AccountArgs, limit : {50},
     unreadOnly : {NotGiven, Given(TRUE)}]
Accepted(p) == TRUE
ListMessagesRuns(p, cached) ==
    {LET messages == run.value
         facade == IF run.threw THEN RetThrow ELSE RetList(messages)
         messageList == Lines([i \in 1..Len(messages) |->
                                <<"  - ">> \o messages[i].subject \o <<" (from: ">>
                                \o messages[i].sender \o <<")">>])
     IN  Run(withErrorHandling(
                 IF Len(messages) = 0 THEN successResponse(<<"No messages found">>)
                 ELSE successResponse(<<"Found ">> \o DecimalText(Len(messages))
                                      \o <<" message(s):\n">> \o messageList),
                 facade, "Error listing messages"),
             facade, run.cache, run.trace) :
     run \in {listMessages(p.mailbox, p.account, p.limit, cached, rA, rM, r) :
                 rA \in AccountOutcomesFor(p.account, cached), rM \in MailboxNamesOutcomes,
                 r \in MessageListOutcomes}}

ListMessagesTool == Invoke("list-messages", ListMessagesParams, Accepted, ListMessagesRuns)

\* search-messages (lines 98-123): from, subject, isRead and isFlagged are in
\* the schema; the handler takes query, mailbox, account and limit.
NoFilter == [from |-> undefined, subject |-> undefined, isRead |-> NotGiven,
             isFlagged |-> NotGiven]
SearchFilters ==
    {NoFilter,
     [NoFilter EXCEPT !.from = sAddr],
     [NoFilter EXCEPT !.subject = sPlain],
     [NoFilter EXCEPT !.isRead = Given(FALSE)],
     [NoFilter EXCEPT !.isFlagged = Given(TRUE)]}
SearchMessagesParams ==
    {[query |-> query, from |-> f.from, subject |-> f.subject, mailbox |-> mailbox,
      account |-> account, isRead |-> f.isRead, isFlagged |-> f.isFlagged, limit |-> 50] :
     query \in {undefined, sQuoted}, f \in SearchFilters,
     mailbox \in {undefined, sconstructor}, account \in AccountArgs}
SearchMessagesRuns(p, cached) ==
    {LET messages == run.value
         facade == IF run.threw THEN RetThrow ELSE RetList(messages)
         messageList == Lines([i \in 1..Len(messages) |->
                                <<"  - ">> \o messages[i].subject \o <<" (from: ">>
                                \o messages[i].sender \o <<") [">>
                                \o (IF messages[i].isRead THEN <<"read">> ELSE <<"unread">>)
                                \o <<"]">>])
     IN  Run(withErrorHandling(
                 IF Len(messages) = 0
                 THEN successResponse(<<"No messages found matching criteria">>)
                 ELSE successResponse(<<"Found ">> \o DecimalText(Len(messages))
                                      \o <<" message(s):\n">> \o messageList),
                 facade, "Error searching messages"),
             facade, run.cache, run.trace) :
     run \in {searchMessages(p.query, p.mailbox, p.account, p.limit, cached, rA, rM, r) :
                 rA \in AccountOutcomesFor(p.account, cached), rM \in MailboxNamesOutcomes,
                 r \in MessageListOutcomes}}

SearchMessagesTool ==
    Invoke("search-messages", SearchMessagesParams, Accepted, SearchMessagesRuns)

\* list-mailboxes (lines 449-465)
ListMailboxesParams == [account : AccountArgs]
ListMailboxesRuns(p, cached) ==
    {LET acc == run.acc
         r == run.r
         mailboxes == run.mailboxes
         mailboxList == Lines([i \in 1..Len(mailboxes) |->
                                <<"  - ">> \o mailboxes[i].name \o <<" (">>
                                \o DecimalText(mailboxes[i].unreadCount) \o <<" unread)">>])
     IN  Run(IF Len(mailboxes) = 0 THEN successResponse(<<"No mailboxes found">>)
             ELSE successResponse(<<"Found ">> \o DecimalText(Len(mailboxes))
                                  \o <<" mailbox(es):\n">> \o mailboxList),
             RetList(mailboxes), acc.cache,
             acc.trace \o <<Executed(listMailboxesScript(acc.value), r)>>) :
     run \in UNION {{[acc |-> acc, r |-> r, mailboxes |-> listMailboxes(acc.value, r)] :
                        r \in ListMailboxesOutcomes} :
                    acc \in {resolveAccount(p.account, cached, rA) :
                               rA \in AccountOutcomesFor(p.account, cached)}}}

ListMailboxesTool == Invoke("list-mailboxes", ListMailboxesParams, Accepted, ListMailboxesRuns)

\* get-unread-count (lines 469-481)
UnreadCountParams == [mailbox : {undefined, ssent, sconstructor}, account : AccountArgs]
UnreadCountRuns(p, cached) ==
    {LET facade == IF run.threw THEN RetThrow ELSE RetNumber(run.value)
         location == IF Truthy(p.mailbox) THEN <<" in \"">> \o p.mailbox \o <<"\"">> ELSE <<>>
     IN  Run(withErrorHandling(
                 successResponse(DecimalText(run.value) \o <<" unread message(s)">>
                                 \o location),
                 facade, "Error getting unread count"),
             facade, run.cache, run.trace) :
     run \in {getUnreadCount(p.mailbox, p.account, cached, rA, rM, r) :
                 rA \in AccountOutcomesFor(p.account, cached),
                 rM \in (IF Truthy(p.mailbox) THEN MailboxNamesOutcomes
                         ELSE {Fail(sTimeout)}),
                 r \in UnreadCountOutcomes}}

GetUnreadCountTool == Invoke("get-unread-count", UnreadCountParams, Accepted, UnreadCountRuns)

\* list-accounts (lines 489-502)
ListAccountsRuns(p, cached) ==
    {LET accounts == run.accounts
         r == run.r
         accountList == Lines([i \in 1..Len(accounts) |-> <<"  - ">> \o accounts[i].name])
     IN  Run(IF Len(accounts) = 0 THEN successResponse(<<"No Mail accounts found">>)
             ELSE successResponse(<<"Found ">> \o DecimalText(Len(accounts))
                                  \o <<" account(s):\n">> \o accountList),
             RetList(accounts), cached, <<Executed(listAccountsScript, r)>>) :
     run \in {[r |-> r, accounts |-> listAccounts(r)] : r \in ListAccountsOutcomes}}

ListAccountsTool == Invoke("list-accounts", {[none |-> TRUE]}, Accepted, ListAccountsRuns)

\* The tools index.ts registers with server.tool (lines 98-587), by name.
RegisteredTools ==
    {"search-messages", "get-message", "list-messages", "send-email", "create-draft",
     "reply-to-message", "forward-message", "mark-as-read", "mark-as-unread",
     "flag-message", "delete-message", "move-message", "batch-delete-messages",
     "batch-move-messages", "batch-mark-as-read", "list-attachments", "list-mailboxes",
     "get-unread-count", "list-accounts", "health-check", "get-mail-stats",
     "get-sync-status"}

\* The tools the README documents (Tool Reference, lines 107-323).
DocumentedTools ==
    {"search-messages", "get-message", "list-messages", "send-email", "create-draft",
     "reply-to-message", "forward-message", "mark-as-read", "mark-as-unread",
     "flag-message", "unflag-message", "delete-message", "move-message",
     "list-mailboxes", "get-unread-count", "list-accounts", "health-check",
     "get-mail-stats"}

NextTools ==
    \/ SearchMessagesTool
    \/ ListMessagesTool
    \/ SendEmailTool
    \/ CreateDraftTool
    \/ ReplyToMessageTool
    \/ ForwardMessageTool
    \/ MarkAsReadTool
    \/ MarkAsUnreadTool
    \/ FlagMessageTool
    \/ DeleteMessageTool
    \/ MoveMessageTool
    \/ BatchDeleteMessagesTool
    \/ BatchMoveMessagesTool
    \/ BatchMarkAsReadTool
    \/ ListMailboxesTool
    \/ GetUnreadCountTool
    \/ ListAccountsTool
    \/ Return
    \/ ExternalChange

SpecTools == Init /\ [][NextTools]_vars

(***************************************************************************)
(* The parsing of responses on its own: Init draws the output text, the    *)
(* actions apply the parsing each listing operation does to the output of  *)
(* a successful execution.                                                 *)
(***************************************************************************)
MaxRecords == 3

\* A slip in the attachment parsing: an item of two fields is kept.
RECURSIVE ParseAttachmentsFromTwoFields(_, _)
ParseAttachmentsFromTwoFields(items, id) ==
    IF items = <<>> THEN <<>>
    ELSE LET parts == Split(Head(items), sFieldSep)
         IN  (IF Len(parts) < 2 THEN <<>>
              ELSE <<[id |-> id \o <<"-">> \o parts[1], name |-> parts[1],
                      mimeType |-> parts[2],
                      size |-> IF Len(parts) < 3 THEN 0 ELSE parseIntOrZero(parts[3])]>>)
             \o ParseAttachmentsFromTwoFields(Tail(items), id)

\* listAttachments, lines 942-955: one attachment per item of at least 3 fields.
RECURSIVE ParseAttachments(_, _)
ParseAttachments(items, id) ==
    IF items = <<>> THEN <<>>
    ELSE LET parts == Split(Head(items), sFieldSep)
         IN  (IF Len(parts) < 3 THEN <<>>
              ELSE <<[id |-> id \o <<"-">> \o parts[1], name |-> parts[1],
                      mimeType |-> parts[2], size |-> parseIntOrZero(parts[3])]>>)
             \o ParseAttachments(Tail(items), id)

\* listAttachments(id), lines 938-957, given the result of its execution.
listAttachments(id, result) ==
    IF ~result.success \/ ~Truthy(Trim(result.output)) THEN <<>>
    ELSE ParseAttachments(Split(result.output, sItemSep), id)

\* The items the output texts are made of: of one to seven fields, empty, and
\* with a fourth bar before a separator.
ResponseItems ==
    {<<"a">>,
     <<"b","|","|","|","2">>,
     <<"c","|","|","|","2","|","|","|","5">>,
     <<"d","|","|","|","e","|","|","|","t","r","u","e","|","|","|","x">>,
     <<" ","5","|","|","|","S","|","|","|","a","@","x","|","|","|","d","|","|","|","t","r","u","e">>,
     <<" ","6","|","|","|","S","|","|","|","a","@","x","|","|","|","d","a","t","e"," ","1","/","2","/","2","0","2","5"," ","a","t"," ","3",":","4","4"," ","P","M","|","|","|","t","r","u","e","|","|","|","f","a","l","s","e">>,
     <<"7","|","|","|","T","|","|","|","b","|","|","|","x","|","|","|","f","a","l","s","e","|","|","|","t","r","u","e","|","|","|","y">>,
     <<>>,
     <<"h","|","|","|","|","2","|","|","|","3">>}

\* The output texts: up to MaxRecords items joined by the item separator.
ResponseTexts == {Join(items, sItemSep) : items \in SeqsUpTo(ResponseItems, MaxRecords)}

ParseOps == {"listMessages", "listMailboxes", "listAccounts", "listAttachments"}

InitParse ==
    /\ mailAccounts = <<>>
    /\ defaultAccount = null
    /\ call \in {[op |-> op, output |-> t] : op \in ParseOps, t \in ResponseTexts}
    /\ ret = Pending
    /\ trace = <<>>

ParseMessagesStep ==
    /\ call.op = "listMessages"
    /\ ret = Pending
    /\ ret' = RetList(messagesFrom(Ok(call.output), sINBOX, sWork))
    /\ UNCHANGED <<mailAccounts, defaultAccount, call, trace>>

ParseMailboxesStep ==
    /\ call.op = "listMailboxes"
    /\ ret = Pending
    /\ ret' = RetList(listMailboxes(sWork, Ok(call.output)))
    /\ UNCHANGED <<mailAccounts, defaultAccount, call, trace>>

ParseAccountsStep ==
    /\ call.op = "listAccounts"
    /\ ret = Pending
    /\ ret' = RetList(listAccounts(Ok(call.output)))
    /\ UNCHANGED <<mailAccounts, defaultAccount, call, trace>>

ParseAttachmentsStep ==
    /\ call.op = "listAttachments"
    /\ ret = Pending
    /\ ret' = RetList(listAttachments(sId, Ok(call.output)))
    /\ UNCHANGED <<mailAccounts, defaultAccount, call, trace>>

NextParse ==
    \/ ParseMessagesStep
    \/ ParseMailboxesStep
    \/ ParseAccountsStep
    \/ ParseAttachmentsStep

SpecParse == InitParse /\ [][NextParse]_vars

(***************************************************************************)
(* listMessages against a mailbox of Mail: Init draws the messages the     *)
(* mailbox holds and the limit; the action runs listMessages with the      *)
(* output its script gives for those messages.                             *)
(***************************************************************************)
MaxMessages == 3

sDateAsString == <<"1","/","2","/","2","0","2","5"," ","a","t"," ","3",":","4","4"," ","P","M">>
sfalse == <<"f","a","l","s","e">>

\* A message of the mailbox, as Mail holds it.
MailMessage(id, subject, sender, read, flagged) ==
    [id |-> id, subject |-> subject, sender |-> sender, date |-> sDateNormalized,
     read |-> read, flagged |-> flagged]

\* The messages a mailbox may hold: one has a subject that ends with a bar,
\* the last two have a subject with the field separator or the item separator
\* in it.
MailMessages ==
    {MailMessage(<<"7">>, <<"S">>, sAddr, TRUE, FALSE),
     MailMessage(<<"8">>, <<"T">>, <<"b">>, FALSE, TRUE),
     MailMessage(<<"5">>, <<"A", "|">>, sAddr, TRUE, TRUE),
     MailMessage(<<"9">>, <<"A">> \o sFieldSep \o <<"B">>, sAddr, FALSE, FALSE),
     MailMessage(<<"6">>, <<"A">> \o sItemSep \o <<"B">>, sAddr, TRUE, TRUE)}

\* "... as string" of a boolean and of a date.
BooleanAsString(b) == IF b THEN strue ELSE sfalse
DateAsString(d) == IF d = sDateNormalized THEN sDateAsString ELSE d

\* lines 397-404: the line the script adds for one message.
MessageLine(msg) ==
    msg.id \o sFieldSep \o msg.subject \o sFieldSep \o msg.sender \o sFieldSep
    \o DateAsString(msg.date) \o sFieldSep \o BooleanAsString(msg.read) \o sFieldSep
    \o BooleanAsString(msg.flagged)

\* lines 390-409: the output of the listing script for the messages of the
\* mailbox: the lines of the first `limit` of them, joined by |||ITEM|||.
ListingOutput(messages, limit) ==
    LET count == IF Len(messages) < limit THEN Len(messages) ELSE limit
    IN  Join([k \in 1..count |-> MessageLine(messages[k])], sItemSep)

ListingLimits == {1, 2, 50}

InitListing ==
    /\ mailAccounts = <<sWork>>
    /\ defaultAccount = null
    /\ call \in {[op |-> "listMessages", mailbox |-> undefined, account |-> sWork,
                  limit |-> limit, messages |-> messages] :
                    limit \in ListingLimits,
                    messages \in SeqsUpTo(MailMessages, MaxMessages)}
    /\ ret = Pending
    /\ trace = <<>>

ListMessagesOfMailbox ==
    /\ call.op = "listMessages"
    /\ ret = Pending
    /\ \E run \in {listMessages(call.mailbox, call.account, call.limit, defaultAccount,
                                Fail(sTimeout),
                                Ok(MailboxNamesOutput(<<sINBOX, sSentItems>>)),
                                Ok(ListingOutput(call.messages, call.limit)))} :
        /\ defaultAccount' = run.cache
        /\ ret' = IF run.threw THEN RetThrow ELSE RetList(run.value)
        /\ trace' = run.trace
    /\ UNCHANGED <<mailAccounts, call>>

NextListing == ListMessagesOfMailbox

SpecListing == InitListing /\ [][NextListing]_vars

(***************************************************************************)
(* searchMessages against a mailbox of Mail: Init draws the messages the   *)
(* mailbox holds, the call and the answers of Mail; the action runs        *)
(* searchMessages with the output its script gives for those messages.     *)
(***************************************************************************)
MaxSearched == 2

\* "whose subject contains ... or sender contains ...", ignoring case as
\* AppleScript's contains does.
MatchesQuery(msg, text) ==
    \/ Includes(toLowerCase(msg.subject), toLowerCase(text))
    \/ Includes(toLowerCase(msg.sender), toLowerCase(text))

\* The messages a listing or search script goes through: those the filter of
\* its "messages of theMailbox ..." line selects, all of them without a filter.
SelectedMessages(script, messages) ==
    IF script.template = "messages of theMailbox whose subject contains or sender contains"
    THEN SelectSeq(messages, LAMBDA msg : MatchesQuery(msg, script.args[3].raw))
    ELSE messages

\* lines 239-259 and 390-409: the output of the script for the messages of
\* the mailbox.
ScriptOutput(script, messages, limit) ==
    ListingOutput(SelectedMessages(script, messages), limit)

Answers == [accounts : {Ok(AccountsOutput(<<sWork>>)), Fail(sTimeout)},
            mailboxes : MailboxNamesOutcomes,
            executed : BOOLEAN]

InitSearch ==
    /\ mailAccounts = <<sWork>>
    /\ defaultAccount \in {null, sWork}
    /\ call \in {[op |-> "searchMessages", query |-> query, mailbox |-> mailbox,
                  account |-> account, limit |-> limit, messages |-> messages,
                  cached |-> defaultAccount, answers |-> answers] :
                    query \in {undefined, <<>>, sPlain},
                    mailbox \in {undefined, ssent, sconstructor},
                    account \in {undefined, sWork},
                    limit \in {1, 50},
                    messages \in SeqsUpTo(MailMessages, MaxSearched),
                    answers \in Answers}
    /\ ret = Pending
    /\ trace = <<>>

SearchMessagesOfMailbox ==
    /\ call.op = "searchMessages"
    /\ ret = Pending
    /\ \E run \in {searchMessages(call.query, call.mailbox, call.account, call.limit,
                                  defaultAccount, call.answers.accounts,
                                  call.answers.mailboxes,
                                  IF call.answers.executed
                                  THEN Ok(ScriptOutput(
                                           searchMessagesScript(call.query, sWork, sINBOX,
                                                                call.limit),
                                           call.messages, call.limit))
                                  ELSE Fail(sTimeout))} :
        /\ defaultAccount' = run.cache
        /\ ret' = IF run.threw THEN RetThrow ELSE RetList(run.value)
        /\ trace' = run.trace
    /\ UNCHANGED <<mailAccounts, call>>

NextSearch == SearchMessagesOfMailbox

SpecSearch == InitSearch /\ [][NextSearch]_vars

(***************************************************************************)
(* Unread counts and statistics against the accounts of Mail: the state    *)
(* machine of the operations that read the counts Mail holds.              *)
(***************************************************************************)
\* getUnreadCount against the accounts of Mail.
GetUnreadCountOfMail ==
    /\ Idle
    /\ \E mailbox \in {undefined, sINBOX}, account \in {undefined, sWork} :
        \E run \in {getUnreadCount(mailbox, account, defaultAccount, rA, rM,
                        IF failed THEN Fail(sTimeout)
                        ELSE Ok(IF Truthy(mailbox) THEN <<"2">>
                                ELSE TotalUnreadOutput(
                                         resolveAccount(account, defaultAccount, rA).value))) :
                      rA \in (IF Truthy(account) \/ Truthy(defaultAccount)
                              THEN {Fail(sTimeout)}
                              ELSE OutcomesOf(AccountsOutput(mailAccounts))),
                      rM \in (IF Truthy(mailbox) THEN MailboxNamesOutcomes
                              ELSE {Fail(sTimeout)}),
                      failed \in BOOLEAN} :
            /\ call' = [op |-> "getUnreadCount", mailbox |-> mailbox, account |-> account]
            /\ defaultAccount' = run.cache
            /\ ret' = IF run.threw THEN RetThrow ELSE RetNumber(run.value)
            /\ trace' = run.trace
    /\ UNCHANGED mailAccounts

NextStats ==
    \/ GetMailStats
    \/ GetUnreadCountOfMail
    \/ ListAccounts
    \/ Return
    \/ ExternalChange

SpecStats == Init /\ [][NextStats]_vars

(***************************************************************************)
(* The by-id operations against the messages of Mail: Init draws the       *)
(* mailboxes Mail holds, with their messages, and the call; the action runs *)
(* the operation, and its script acts on those mailboxes.                   *)
(***************************************************************************)
sId8 == <<"8">>
sId9 == <<"9">>
sFlagEvery == <<"s","e","t"," ","f","l","a","g","g","e","d"," ","s","t","a","t","u","s"," ","o","f"," ","e","v","e","r","y"," ","m","e","s","s","a","g","e"," ","o","f"," ","m","b"," ","t","o"," ","t","r","u","e">>
sRestOfLine == <<"s","e","t"," ","x"," ","t","o"," ","(","m","e","s","s","a","g","e","s"," ","o","f"," ","m","b"," ","w","h","o","s","e"," ","i","d"," ","i","s"," ","0">>

\* An id that closes the filter of the script line it is put into, and goes on
\* with a statement of its own.
sIdWithStatement == <<"0", ")", "\n">> \o sFlagEvery \o <<"\n">> \o sRestOfLine

StoredMessage(id, read, flagged) == [id |-> id, read |-> read, flagged |-> flagged]
StoredMailbox(account, name, messages) ==
    [account |-> account, name |-> name, messages |-> messages]

\* The mailboxes of Mail in the order "accounts" and "mailboxes of acct" give
\* them; a message with id 7 may be in two of them, in one, or in none.
StoredMail ==
    {<<StoredMailbox(sWork, sINBOX, first),
       StoredMailbox(sWork, sSentItems, second)>> :
        first \in {<<>>, <<StoredMessage(sId, FALSE, FALSE)>>,
                   <<StoredMessage(sId8, TRUE, TRUE), StoredMessage(sId, TRUE, FALSE)>>},
        second \in {<<StoredMessage(sId8, FALSE, FALSE)>>,
                    <<StoredMessage(sId, FALSE, TRUE), StoredMessage(sId8, FALSE, TRUE)>>}}

\* The ids the operations are called with.
StoredIds == {sId, sId9, sIdWithStatement}

\* "messages of mb whose id is ${id}": the filter ends where the line does; the
\* lines after the first are statements of the script.
IdFilter(id) == Split(id, <<"\n">>)[1]
StatementsIn(id) == Tail(Split(id, <<"\n">>))
FilterMatches(message, filter) ==
    /\ filter # <<>>
    /\ IsDigit(Head(filter))
    /\ message.id # <<>>
    /\ LeadingNumber(message.id, 0) = LeadingNumber(filter, 0)

\* The positions of the messages of a mailbox the filter selects.
matchingMsgs(mb, id) ==
    {i \in 1..Len(mb.messages) : FilterMatches(mb.messages[i], IdFilter(id))}

\* A statement an id brings along, run against mailbox mb.
RunStatement(mb, statement) ==
    IF statement = sFlagEvery
    THEN [mb EXCEPT !.messages =
              [i \in 1..Len(mb.messages) |-> [mb.messages[i] EXCEPT !.flagged = TRUE]]]
    ELSE mb
RECURSIVE RunStatements(_, _)
RunStatements(mb, statements) ==
    IF statements = <<>> THEN mb
    ELSE RunStatements(RunStatement(mb, Head(statements)), Tail(statements))

Without(messages, i) == SubSeq(messages, 1, i - 1) \o SubSeq(messages, i + 1, Len(messages))

\* The destination "mailbox X of account Y": its position, 0 when Mail has none.
Destination(mail, mailbox, account) ==
    IF \E d \in 1..Len(mail) : mail[d].name = mailbox /\ mail[d].account = account
    THEN CHOOSE d \in 1..Len(mail) : mail[d].name = mailbox /\ mail[d].account = account
    ELSE 0

\* The operation line on msg, message i of mailbox k.
RunOperation(mail, k, i, operation, dest) ==
    LET msg == mail[k].messages[i]
    IN  IF operation = "set read status of msg to true"
        THEN [mail EXCEPT ![k].messages[i].read = TRUE]
        ELSE IF operation = "set read status of msg to false"
        THEN [mail EXCEPT ![k].messages[i].read = FALSE]
        ELSE IF operation = "set flagged status of msg to true"
        THEN [mail EXCEPT ![k].messages[i].flagged = TRUE]
        ELSE IF operation = "set flagged status of msg to false"
        THEN [mail EXCEPT ![k].messages[i].flagged = FALSE]
        ELSE IF operation = "delete msg"
        THEN [mail EXCEPT ![k].messages = Without(@, i)]
        ELSE IF dest = k THEN mail
        ELSE [mail EXCEPT ![k].messages = Without(@, i),
                          ![dest].messages = Append(@, msg)]

\* The two repeat loops of the script (lines 700-712, 806-820) from mailbox k
\* on: in each mailbox the filter line and what the id added to it, then the
\* operation on the first message selected and "ok"; an error inside the inner
\* try (the mailboxes in failing, a destination Mail does not have) goes on
\* with the next mailbox.
RECURSIVE RunFindMessage(_, _, _, _, _, _)
RunFindMessage(mail, k, id, operation, dest, failing) ==
    IF k > Len(mail) THEN [mail |-> mail, output |-> sNotFound]
    ELSE LET after == [mail EXCEPT ![k] = RunStatements(@, StatementsIn(id))]
             matching == matchingMsgs(after[k], id)
         IN  IF matching # {} /\ k \notin failing /\ dest # 0
             THEN [mail |-> RunOperation(after, k,
                                CHOOSE i \in matching : \A j \in matching : i <= j,
                                operation, dest),
                   output |-> sok]
             ELSE RunFindMessage(after, k + 1, id, operation, dest, failing)

\* The ways an execution of the script can end: Mail as the script leaves it
\* with the script's output, or a failed execution that changed nothing.
FindMessageRuns(mail, id, operation, dest) ==
    {[mail |-> run.mail, result |-> Ok(run.output)] :
        run \in {RunFindMessage(mail, 1, id, operation, dest, failing) :
                    failing \in SUBSET (1..Len(mail))}}
    \cup {[mail |-> mail, result |-> Fail(sTimeout)]}

StoredOps == {"markAsRead", "markAsUnread", "flagMessage", "unflagMessage",
              "deleteMessage", "moveMessage"}

\* The names of the mailboxes Mail holds for an account.
RECURSIVE NamesOfAccount(_, _)
NamesOfAccount(mail, account) ==
    IF mail = <<>> THEN <<>>
    ELSE (IF Head(mail).account = account THEN <<Head(mail).name>> ELSE <<>>)
         \o NamesOfAccount(Tail(mail), account)

InitStore ==
    /\ mailAccounts \in StoredMail
    /\ defaultAccount = null
    /\ \E op \in StoredOps, id \in StoredIds, mailbox \in MailboxArgs :
        call = [op |-> op, id |-> id, mailbox |-> mailbox, before |-> mailAccounts]
    /\ ret = Pending
    /\ trace = <<>>

\* markAsRead, markAsUnread, flagMessage, unflagMessage, deleteMessage
\* (lines 722-792) on the messages of Mail.
ActOnStoredMessage ==
    /\ ret = Pending
    /\ call.op \in DOMAIN ByIdOperation
    /\ \E run \in FindMessageRuns(mailAccounts, call.id, ByIdOperation[call.op], 1) :
        /\ mailAccounts' = run.mail
        /\ ret' = RetBool(actionSucceeded(run.result))
        /\ trace' = <<Executed(findMessageScript(call.id, ByIdOperation[call.op]),
                               run.result)>>
    /\ UNCHANGED <<defaultAccount, call>>

\* moveMessage (lines 797-832) on the messages of Mail, for the account Work.
MoveStoredMessage ==
    /\ ret = Pending
    /\ call.op = "moveMessage"
    /\ \E rM \in {Ok(MailboxNamesOutput(NamesOfAccount(mailAccounts, sWork))),
                  Fail(sTimeout)} :
        LET targetMailbox == resolveMailbox(call.mailbox, sWork, rM)
            listed == <<Executed(mailboxNamesScript(sWork), rM)>>
        IN  IF targetMailbox = TypeError
            THEN /\ ret' = RetThrow
                 /\ trace' = listed
                 /\ UNCHANGED mailAccounts
            ELSE \E run \in FindMessageRuns(mailAccounts, call.id,
                                "move msg to destMailbox",
                                Destination(mailAccounts, targetMailbox, sWork)) :
                    /\ mailAccounts' = run.mail
                    /\ ret' = RetBool(actionSucceeded(run.result))
                    /\ trace' = listed \o
                           <<Executed(moveScript(call.id, targetMailbox, sWork),
                                      run.result)>>
    /\ UNCHANGED <<defaultAccount, call>>

NextStore ==
    \/ ActOnStoredMessage
    \/ MoveStoredMessage

SpecStore == InitStore /\ [][NextStore]_vars

(***************************************************************************)
(* The server as a process: requests arrive on the transport, the event    *)
(* loop starts the handler of one, and a handler goes through its reads    *)
(* and writes of the cached default account and its executions one step at *)
(* a time.  The state of the process is in call (the requests waiting and  *)
(* the handlers started), the steps taken are in trace.                    *)
(***************************************************************************)
MaxInvocations == 3

ServerState(arrived, queue, started) ==
    [op |-> "server", arrived |-> arrived, queue |-> queue, started |-> started]

Step(inv, event) == [inv |-> inv, event |-> event]

\* The handlers started and not yet returned.
Unfinished(started) == {i \in 1..Len(started) : started[i].pc # "returned"}

\* A handler that gives the event loop its turn while it waits for an execution.
CanStartWhileWaiting(started) == TRUE

\* index.ts lines 82-84: the wrapper calls handler(params) and returns what it
\* returns; neither the handlers nor the facade await anything, and an
\* execution blocks until it returns, so the event loop takes the next request
\* only when no handler is under way.
CanStart(started) == Unfinished(started) = {}

InitServer ==
    /\ mailAccounts \in AccountWorlds
    /\ defaultAccount = null
    /\ call = ServerState(0, <<>>, <<>>)
    /\ ret = Pending
    /\ trace = <<>>

\* A request for a tool that resolves the account (list-mailboxes) arrives.
Arrive ==
    /\ call.op = "server"
    /\ call.arrived < MaxInvocations
    /\ \E account \in AccountArgs :
        call' = [call EXCEPT !.arrived = @ + 1,
                             !.queue = Append(@, [inv |-> call.arrived + 1,
                                                  account |-> account])]
    /\ UNCHANGED <<mailAccounts, defaultAccount, ret, trace>>

\* The event loop hands the first waiting request to its handler.
Start ==
    /\ call.op = "server"
    /\ call.queue # <<>>
    /\ CanStart(call.started)
    /\ call' = [call EXCEPT !.queue = Tail(@),
                            !.started = Append(@, [inv |-> Head(call.queue).inv,
                                                   account |-> Head(call.queue).account,
                                                   pc |-> "resolve", target |-> undefined])]
    /\ UNCHANGED <<mailAccounts, defaultAccount, ret, trace>>

\* resolveAccount, lines 131-133: the explicit account or the cached default;
\* line 135: without either, the listAccounts execution is issued.
ResolveStep ==
    /\ call.op = "server"
    /\ \E i \in Unfinished(call.started) :
        LET h == call.started[i]
        IN  /\ h.pc = "resolve"
            /\ IF Truthy(h.account)
               THEN /\ call' = [call EXCEPT !.started[i].pc = "script",
                                            !.started[i].target = h.account]
                    /\ trace' = trace
               ELSE IF Truthy(defaultAccount)
               THEN /\ call' = [call EXCEPT !.started[i].pc = "script",
                                            !.started[i].target = defaultAccount]
                    /\ trace' = Append(trace, Step(h.inv, "read"))
               ELSE /\ call' = [call EXCEPT !.started[i].pc = "listing"]
                    /\ trace' = trace \o <<Step(h.inv, "read"), Step(h.inv, "issue")>>
    /\ UNCHANGED <<mailAccounts, defaultAccount, ret>>

\* resolveAccount, lines 135-141: the listing returns; the first account found
\* becomes the cached default.
ListingReturns ==
    /\ call.op = "server"
    /\ \E i \in Unfinished(call.started), r \in ListAccountsOutcomes :
        LET h == call.started[i]
            accounts == listAccounts(r)
        IN  /\ h.pc = "listing"
            /\ IF Len(accounts) > 0
               THEN /\ defaultAccount' = accounts[1].name
                    /\ call' = [call EXCEPT !.started[i].pc = "script",
                                            !.started[i].target = accounts[1].name]
                    /\ trace' = trace \o <<Step(h.inv, "return"), Step(h.inv, "write")>>
               ELSE /\ defaultAccount' = defaultAccount
                    /\ call' = [call EXCEPT !.started[i].pc = "script",
                                            !.started[i].target = siCloud]
                    /\ trace' = Append(trace, Step(h.inv, "return"))
    /\ UNCHANGED <<mailAccounts, ret>>

\* The script of the operation is handed to the executor.
IssueScript ==
    /\ call.op = "server"
    /\ \E i \in Unfinished(call.started) :
        /\ call.started[i].pc = "script"
        /\ call' = [call EXCEPT !.started[i].pc = "executing"]
        /\ trace' = Append(trace, Step(call.started[i].inv, "issue"))
    /\ UNCHANGED <<mailAccounts, defaultAccount, ret>>

\* The execution returns, or times out, and the handler returns its response.
ScriptReturns ==
    /\ call.op = "server"
    /\ \E i \in Unfinished(call.started), r \in ListMailboxesOutcomes :
        /\ call.started[i].pc = "executing"
        /\ call' = [call EXCEPT !.started[i].pc = "returned"]
        /\ trace' = Append(trace, Step(call.started[i].inv, "return"))
        /\ ret' = RetList(listMailboxes(call.started[i].target, r))
    /\ UNCHANGED <<mailAccounts, defaultAccount>>

NextServer ==
    \/ Arrive
    \/ Start
    \/ ResolveStep
    \/ ListingReturns
    \/ IssueScript
    \/ ScriptReturns

SpecServer == InitServer /\ [][NextServer]_vars

(***************************************************************************)
(* Properties of the operations.                                           *)
(***************************************************************************)
Last(s) == s[Len(s)]

\* The account a script is scoped to or names.
AccountArgsOf(script) ==
    {script.args[k].raw : k \in {j \in 1..Len(script.args) : script.args[j].param = "account"}}

\* The operations that resolve the account before anything else.
AccountOps == {"listMailboxes", "moveMessage", "batchMoveMessages", "getUnreadCount",
               "listMessages", "searchMessages"}

\* C2: in every script an operation hands to the executor, every string the
\* caller supplied (subject, body, addresses, account, mailbox, query, message
\* id) stands in the form escapeForAppleScript gives it.
EveryInterpolationEscaped ==
    \A i \in 1..Len(trace) : \A k \in 1..Len(trace[i].script.args) :
        LET a == trace[i].script.args[k]
        IN  a.param # "limit" => a.text = escapeForAppleScript(a.raw)

\* The scripts of an operation after the account listing of resolveAccount.
AfterListing(tr) == IF tr[1].script = listAccountsScript THEN Tail(tr) ELSE tr

\* C5: the account an operation works on is the requested one when one is
\* given; otherwise the cached default when there is one; otherwise the first
\* account listAccounts returns, which is then the cached default; otherwise,
\* when none is found, "iCloud".
ResolveAccountPrecedence ==
    [][(call'.op \in AccountOps /\ trace' # <<>>) =>
        LET requested == call'.account
            used == AccountArgsOf(AfterListing(trace')[1].script)
            listing == trace'[1].result
            found == listAccounts(listing)
        IN  IF Truthy(requested) THEN used = {requested}
            ELSE IF Truthy(defaultAccount) THEN used = {defaultAccount}
            ELSE /\ trace'[1].script = listAccountsScript
                 /\ IF Len(found) > 0
                    THEN /\ used = {found[1].name}
                         /\ defaultAccount' = found[1].name
                         /\ (listing = Ok(AccountsOutput(mailAccounts))
                                => used = {mailAccounts[1]})
                    ELSE used = {siCloud}]_vars

ResolveAccountPrecedenceWitness ==
    /\ call.op = "listMailboxes"
    /\ call.account = undefined
    /\ mailAccounts = <<sHome, sWork>>
    /\ trace[1] = Executed(listAccountsScript, Ok(AccountsOutput(mailAccounts)))
    /\ AccountArgsOf(trace[2].script) = {sHome}
    /\ defaultAccount = sHome

\* C6: once a default account is cached it never changes; every later
\* operation called without an account works on it, and no operation that
\* resolves the account issues the account listing again, whatever the mail
\* accounts have become.
CachedDefaultIsStable ==
    [][Truthy(defaultAccount) =>
        /\ defaultAccount' = defaultAccount
        /\ (call'.op \in AccountOps) =>
            /\ \A i \in 1..Len(trace') : trace'[i].script # listAccountsScript
            /\ ~Truthy(call'.account) =>
                \A i \in 1..Len(trace') : AccountArgsOf(trace'[i].script) = {defaultAccount}]_vars

CachedDefaultIsStableWitness ==
    /\ call.op = "listMessages"
    /\ call.account = undefined
    /\ defaultAccount = sWork
    /\ mailAccounts = <<sHome, sWork>>
    /\ Len(trace) = 2
    /\ AccountArgsOf(trace[1].script) = {sWork}

BatchOps == {"batchDeleteMessages", "batchMoveMessages", "batchMarkAsRead"}

\* The executions of the single-item scripts of a batch, in order.
ItemExecutions(tr) ==
    SelectSeq(tr, LAMBDA e : e.script.template \in
        {ByIdOperation.deleteMessage, ByIdOperation.markAsRead, "move msg to destMailbox"})

\* C7: a batch operation on N ids returns N records; record i carries ids[i]
\* and the outcome of the single operation on ids[i], whatever the outcomes
\* of the other items.
BatchRecordsPerItem ==
    call.op \in BatchOps =>
        /\ ret.kind = "list"
        /\ Len(ret.val) = Len(call.ids)
        /\ Len(ItemExecutions(trace)) = Len(call.ids)
        /\ \A i \in 1..Len(call.ids) :
            /\ ret.val[i].id = call.ids[i]
            /\ ItemExecutions(trace)[i].script.args[1].raw = call.ids[i]
            /\ ret.val[i].success = actionSucceeded(ItemExecutions(trace)[i].result)

\* The probes of healthCheck, by position.
ProbeScriptsInOrder ==
    /\ Len(trace) >= 1 /\ trace[1].script = mailCheckScript
    /\ Len(trace) >= 2 => trace[2].script = permCheckScript
    /\ Len(trace) >= 3 => trace[3].script = listAccountsScript
    /\ Len(trace) >= 4 => Last(trace).script.template = "listMailboxes"

ReachabilityFailed == ~(trace[1].result.success /\ trace[1].result.output = sok)
PermissionCallFailed == Len(trace) >= 2 /\ ~trace[2].result.success
PermissionDenied ==
    /\ PermissionCallFailed
    /\ \/ Includes(trace[2].result.error, sNotAuthorized)
       \/ Includes(trace[2].result.error, sNotPermitted)
NoAccountFound == Len(trace) >= 3 /\ Len(listAccounts(trace[3].result)) = 0
Unhealthy(n) == ~ret.val.healthy /\ Len(trace) = n

\* C8 as stated: the probes run in the order reachability, permission,
\* accounts, listing, and a failure of one of the first three makes the
\* result unhealthy with no later probe issued.
HealthCheckStopsAtFailedProbe ==
    call.op = "healthCheck" =>
        /\ ProbeScriptsInOrder
        /\ ReachabilityFailed => Unhealthy(1)
        /\ PermissionCallFailed => Unhealthy(2)
        /\ NoAccountFound => Unhealthy(3)

\* C8: the probes run in the order reachability, permission, accounts,
\* listing; the result is unhealthy with no later probe issued when the
\* reachability probe fails, when the permission probe fails with an error
\* holding "not authorized" or "not permitted", or when no account is found;
\* a permission probe failing with another error is recorded as passed and
\* the later probes run.
HealthCheckStopsAtFailedCheck ==
    call.op = "healthCheck" =>
        /\ ProbeScriptsInOrder
        /\ ReachabilityFailed => Unhealthy(1)
        /\ PermissionDenied => Unhealthy(2)
        /\ NoAccountFound => Unhealthy(3)
        /\ (PermissionCallFailed /\ ~PermissionDenied) =>
            /\ Len(trace) >= 3
            /\ ret.val.checks[2].passed
        /\ ~(ReachabilityFailed \/ PermissionDenied \/ NoAccountFound) =>
            /\ Len(trace) >= 4
            /\ ret.val.healthy

HealthCheckStopsAtFailedCheckWitness ==
    /\ call.op = "healthCheck"
    /\ trace[1].result = Ok(sok)
    /\ PermissionDenied
    /\ trace[2].result.error = sNotPermitted
    /\ Unhealthy(2)

\* The value an operation returns on failure, by the kind of operation.
FailureSentinel == [
    getMessageById |-> "null", getUnreadCount |-> "null",
    markAsRead |-> "bool", markAsUnread |-> "bool", flagMessage |-> "bool",
    unflagMessage |-> "bool", deleteMessage |-> "bool", moveMessage |-> "bool",
    sendEmail |-> "bool", createDraft |-> "bool", replyToMessage |-> "bool",
    forwardMessage |-> "bool",
    listAccounts |-> "list", listMailboxes |-> "list", listMessages |-> "list",
    searchMessages |-> "list"]

IsSentinel(value, kind) ==
    /\ value.kind = kind
    /\ kind = "bool" => value.val = FALSE
    /\ kind = "list" => value.val = <<>>

\* C9: whatever the executor answers, an operation returns a value and never
\* raises; when the execution of its script fails the value is null for a get
\* operation, false for an action, the empty list for a listing.
FailureIsReturnedNotRaised ==
    call.op # "idle" =>
        /\ ret.kind # "throw"
        /\ (call.op \in DOMAIN FailureSentinel /\ ~Last(trace).result.success) =>
            IsSentinel(ret, FailureSentinel[call.op])

\* C10 as stated: sendEmail returns true when the execution of its script
\* succeeds, false when it fails, and never throws.
SendEmailTrueOnSuccess ==
    call.op = "sendEmail" =>
        /\ ret.kind = "bool"
        /\ ret.val = trace[1].result.success

\* C10: sendEmail returns true when the execution of its script succeeds
\* with an output holding "sent", false when the execution fails or the
\* output does not hold "sent", and never throws.
SendEmailTrueOnSent ==
    call.op = "sendEmail" =>
        /\ Len(trace) = 1
        /\ ret.kind = "bool"
        /\ ret.val = (trace[1].result.success /\ Includes(trace[1].result.output, ssent))

SendEmailTrueOnSentWitness ==
    /\ call.op = "sendEmail"
    /\ trace[1].result = Ok(<<>>)
    /\ ret = RetBool(FALSE)

\* The actions on one message found by id.
ByIdActionOps == {"markAsRead", "markAsUnread", "flagMessage", "unflagMessage",
                  "deleteMessage", "moveMessage", "replyToMessage", "forwardMessage"}

\* C11 as stated: a by-id action returns false when the execution of its
\* script fails or its output begins with "error:" or "ERROR:", and true
\* only when the execution succeeded with an output without such a prefix.
ActionFalseOnEitherPrefix ==
    (call.op \in ByIdActionOps /\ ret.kind = "bool") =>
        ret.val = (/\ Last(trace).result.success
                   /\ ~StartsWith(Last(trace).result.output, sErrorPrefix)
                   /\ ~StartsWith(Last(trace).result.output, SubSeq(sUpperError, 1, 6)))

\* C11: a by-id action returns false when the execution of its script fails
\* or its output begins with "error:" in lower case, and true only when the
\* execution succeeded with an output not beginning with "error:"; an output
\* beginning with "ERROR:" counts as success.
ActionFalseOnErrorPrefix ==
    (call.op \in ByIdActionOps /\ ret.kind = "bool") =>
        /\ ret.val = (/\ Last(trace).result.success
                      /\ ~StartsWith(Last(trace).result.output, sErrorPrefix))
        /\ Last(trace).result = Ok(sUpperError) => ret.val

ActionFalseOnErrorPrefixWitness ==
    /\ call.op = "deleteMessage"
    /\ Last(trace).result = Ok(sUpperError)
    /\ ret = RetBool(TRUE)

\* A tool invocation whose handler ran.
HandlerRan == call.op = "tool" /\ ret.facade.kind # "pending"

\* The facade returned null, false, or the empty list of a failed execution.
FacadeSignalsFailure ==
    \/ ret.facade.kind = "null"
    \/ ret.facade.kind = "bool" /\ ret.facade.val = FALSE
    \/ ret.facade.kind = "list" /\ ret.facade.val = <<>> /\ ~Last(trace).result.success

\* C12: when the facade operation signals failure through the value it
\* returns, the tool answers with an error response; the failed execution of
\* an operation's script is never answered with a successful response.
FailureRenderedAsError ==
    HandlerRan =>
        /\ FacadeSignalsFailure => ret.val.isError
        /\ (ret.facade.kind \in {"null", "bool", "number"} /\ ~Last(trace).result.success)
            => ret.val.isError

\* A required parameter is empty: the message id, the recipient list, the id
\* list, the subject, the body, the destination mailbox.
RequiredParameterEmpty(params) ==
    \E f \in {"id", "to", "ids", "subject", "body", "mailbox"} :
        f \in DOMAIN params /\ params[f] = <<>>

\* C13: a tool invocation with an empty required parameter is refused before
\* any script is built: nothing is executed for it and the cached default
\* account is as it was.
InvalidInvocationRejected ==
    [][(call'.op = "tool" /\ RequiredParameterEmpty(call'.params)) =>
        /\ trace' = <<>>
        /\ defaultAccount' = defaultAccount
        /\ ret'.val.isError]_vars

InvalidInvocationRejectedWitness ==
    /\ call.op = "tool"
    /\ call.name = "send-email"
    /\ call.params.subject = <<>>
    /\ call.params.to # <<>>
    /\ ret = Rejected
    /\ trace = <<>>
    /\ defaultAccount = sWork

\* The templates that hold a send statement: sendEmail's (lines 501, 510), and
\* replyToMessage's and forwardMessage's when send is true (lines 608, 653).
SendTemplates == {"send new outgoing message", "send new outgoing message with sender",
                  "reply msg, send theReply", "reply msg with reply to all, send theReply",
                  "forward msg, send theForward"}

\* The interpolations that stand in the script outside a string literal.
BareParams == {"id", "limit"}

\* The part of an interpolation AppleScript reads as script rather than as
\* the inside of a string literal: all of a bare one, and of a quoted one what
\* follows the first quote that no backslash protects.
ReadAsScript(arg) ==
    IF arg.param \in BareParams THEN arg.text
    ELSE LET closing == {i \in 1..Len(arg.text) :
                            arg.text[i] = DQ /\ BackslashRun(arg.text, i) % 2 = 0}
         IN  IF closing = {} THEN <<>>
             ELSE SubSeq(arg.text, (CHOOSE i \in closing : \A j \in closing : i <= j) + 1,
                         Len(arg.text))

sSendLine == <<"\n","s","e","n","d"," ">>

\* The script holds a send statement: its template does, or an interpolation
\* brings one in.
IssuesSend(script) ==
    \/ script.template \in SendTemplates
    \/ \E k \in 1..Len(script.args) : Includes(ReadAsScript(script.args[k]), sSendLine)

\* C14: a send statement is in a script only of sendEmail, and of
\* replyToMessage and forwardMessage called with send true; createDraft, and
\* the two called with send false, hand over no script that sends.
SendOnlyWhenAsked ==
    \A i \in 1..Len(trace) :
        IssuesSend(trace[i].script) =>
            \/ call.op = "sendEmail"
            \/ call.op \in {"replyToMessage", "forwardMessage"} /\ call.send

\* The number of fields a record of each kind of list has.
ExpectedFields ==
    [listMessages |-> 6, listMailboxes |-> 3, listAccounts |-> 3, listAttachments |-> 3]

\* The subsequence of the items that split into at least n fields.
RECURSIVE FullRecords(_, _)
FullRecords(items, n) ==
    IF items = <<>> THEN <<>>
    ELSE (IF Len(Split(Head(items), sFieldSep)) >= n THEN <<Head(items)>> ELSE <<>>)
         \o FullRecords(Tail(items), n)

\* The first field of the record an entity was made from.
FirstField(op, entity) == IF op = "listMessages" THEN entity.id ELSE entity.name

\* C15: parsing an output text raises nothing and gives one entity for each
\* item that splits into at least the expected number of fields (6 for
\* messages, 3 for mailboxes, accounts and attachments), none for the items
\* with fewer, in the order of the items.
ParsingKeepsFullRecords ==
    (call.op \in ParseOps /\ ret # Pending) =>
        /\ ret.kind = "list"
        /\ LET kept == FullRecords(Split(call.output, sItemSep), ExpectedFields[call.op])
           IN  /\ Len(ret.val) = Len(kept)
               /\ \A k \in 1..Len(kept) :
                      LET first == Split(kept[k], sFieldSep)[1]
                      IN  FirstField(call.op, ret.val[k])
                              = IF call.op = "listMessages" THEN Trim(first) ELSE first

\* A text of three items, the second short for every kind of list, has been parsed.
ParsingKeepsFullRecordsWitness ==
    /\ call.op = "listAttachments"
    /\ Len(Split(call.output, sItemSep)) = 3
    /\ Len(Split(Split(call.output, sItemSep)[2], sFieldSep)) = 2
    /\ ret.kind = "list" /\ Len(ret.val) = 2
    /\ ret.val[1].name = <<"c">> /\ ret.val[2].name = <<"h">>

\* The message of the mailbox that a returned record carries.
CarriesMessage(record, msg) ==
    /\ record.id = msg.id
    /\ record.subject = msg.subject
    /\ record.sender = msg.sender
    /\ record.dateReceived = msg.date
    /\ record.isRead = msg.read
    /\ record.isFlagged = msg.flagged

\* C16: listMessages against a mailbox holding n messages returns, when the
\* execution succeeds, exactly min(limit, n) records, in mailbox order, the
\* k-th carrying the id, subject, sender, received date, read flag and flagged
\* flag of the k-th message.
ListMessagesReturnsFirstMessages ==
    (call.op = "listMessages" /\ ret # Pending) =>
        /\ ret.kind = "list"
        /\ Len(ret.val) = (IF Len(call.messages) < call.limit THEN Len(call.messages)
                           ELSE call.limit)
        /\ \A k \in 1..Len(ret.val) :
               k <= Len(call.messages) /\ CarriesMessage(ret.val[k], call.messages[k])

\* F(1) + ... + F(n).
SumOver(n, F(_)) ==
    LET partial[k \in 0..n] == IF k = 0 THEN 0 ELSE F(k) + partial[k - 1]
    IN  partial[n]

\* C17: getMailStats returns one entry per account that listAccounts returned,
\* in the same order; the entry's totalMessages and unreadMessages are the sums
\* of messageCount and unreadCount over the mailboxes listed for that account,
\* its mailboxCount their number; the top-level totalMessages and totalUnread
\* are the sums of the entries' totals.
MailStatsAreSums ==
    call.op = "getMailStats" =>
        LET accounts == listAccounts(trace[1].result)
            stats == ret.val.accounts
        IN  /\ Len(stats) = Len(accounts)
            /\ \A i \in 1..Len(accounts) :
                   LET listed == listMailboxes(accounts[i].name, trace[1 + i].result)
                       MessageCountAt(k) == listed[k].messageCount
                       UnreadCountAt(k) == listed[k].unreadCount
                   IN  /\ stats[i].name = accounts[i].name
                       /\ stats[i].totalMessages = SumOver(Len(listed), MessageCountAt)
                       /\ stats[i].unreadMessages = SumOver(Len(listed), UnreadCountAt)
                       /\ stats[i].mailboxCount = Len(listed)
            /\ LET TotalAt(i) == stats[i].totalMessages
                   UnreadAt(i) == stats[i].unreadMessages
               IN  /\ ret.val.totalMessages = SumOver(Len(stats), TotalAt)
                   /\ ret.val.totalUnread = SumOver(Len(stats), UnreadAt)

\* Two accounts, every listing succeeded: 4 + (5 + 3) messages, 1 + (2 + 0) unread.
MailStatsAreSumsWitness ==
    /\ call.op = "getMailStats"
    /\ mailAccounts = <<sHome, sWork>>
    /\ \A i \in 1..Len(trace) : trace[i].result.success
    /\ Len(ret.val.accounts) = 2
    /\ ret.val.accounts[2].mailboxCount = 2
    /\ ret.val.accounts[2].totalMessages = 8
    /\ ret.val.totalMessages = 12
    /\ ret.val.totalUnread = 3

\* The unread messages of all the accounts of Mail.
UnreadOfAllAccounts ==
    LET UnreadAt(i) == SumUnread(MailboxesOf(mailAccounts[i]))
    IN  SumOver(Len(mailAccounts), UnreadAt)

\* C19: the unread count asked for with no mailbox and no account is the
\* total over every mailbox of every account, when the executions succeed.
UnreadCountCoversAllAccounts ==
    (/\ call.op = "getUnreadCount"
     /\ call.mailbox = undefined /\ call.account = undefined
     /\ \A i \in 1..Len(trace) : trace[i].result.success) =>
        /\ ret.kind = "number"
        /\ ret.val = UnreadOfAllAccounts

\* The messages a tool invocation returned, when it is the named tool and the
\* handler received a list.
MessagesReturnedBy(name) ==
    IF call.op = "tool" /\ call.name = name /\ ret.kind = "response"
       /\ ret.facade.kind = "list"
    THEN ret.facade.val ELSE <<>>

\* C20: every message search-messages returns satisfies each filter the
\* caller supplied (from, subject, isRead, isFlagged), and list-messages
\* called with unreadOnly true returns only unread messages.
ResultsSatisfyFilters ==
    /\ \A i \in 1..Len(MessagesReturnedBy("search-messages")) :
           LET m == MessagesReturnedBy("search-messages")[i]
               p == call.params
           IN  /\ p.from # undefined => Includes(m.sender, p.from)
               /\ p.subject # undefined => Includes(m.subject, p.subject)
               /\ p.isRead.given => m.isRead = p.isRead.value
               /\ p.isFlagged.given => m.isFlagged = p.isFlagged.value
    /\ \A i \in 1..Len(MessagesReturnedBy("list-messages")) :
           LET m == MessagesReturnedBy("list-messages")[i]
               p == call.params
           IN  (p.unreadOnly.given /\ p.unreadOnly.value) => ~m.isRead

\* The executions issued and not yet returned.
InFlight ==
    Cardinality({i \in 1..Len(trace) : trace[i].event = "issue"})
        - Cardinality({i \in 1..Len(trace) : trace[i].event = "return"})

\* C18: at most one execution is in flight at any time, and the steps of two
\* invocations (their executions, their reads and writes of the cached default
\* account) never interleave: between two steps of one invocation there is no
\* step of another.
OneInvocationAtATime ==
    call.op = "server" =>
        /\ InFlight <= 1
        /\ \A i \in 1..Len(trace), k \in 1..Len(trace) :
               (i < k /\ trace[i].inv = trace[k].inv) =>
                   \A j \in i..k : trace[j].inv = trace[i].inv

\* An execution of a later invocation is in flight while a request waits, after
\* an earlier invocation wrote the cached default account.
OneInvocationAtATimeWitness ==
    /\ call.op = "server"
    /\ InFlight = 1
    /\ call.queue # <<>>
    /\ \E i \in 1..Len(trace) :
           trace[i].event = "write" /\ trace[i].inv # Last(trace).inv

\* C21: the tool interface has one entry point per documented operation, a
\* tool named unflag-message among them, so that a message flagged with
\* flag-message can be unflagged through the tools; and a tool that is invoked
\* is a registered one.
EveryDocumentedToolIsOffered ==
    /\ \A name \in DocumentedTools : name \in RegisteredTools
    /\ call.op = "tool" => call.name \in RegisteredTools

\* C22: resolveMailbox never raises; what it returns is an element of the
\* account's live mailbox list or the requested name unchanged, and the
\* requested name unchanged when the query for the list fails or gives an
\* empty output.
ResolveReturnsLiveOrRequested ==
    (call.op = "resolveMailbox" /\ ret # Pending) =>
        /\ ret.kind = "string"
        /\ ret.val \in Range(call.live) \cup {call.mailbox}
        /\ (~call.fetched \/ call.live = <<>>) => ret.val = call.mailbox

\* The operation resolves the account: it is one of AccountOps, and a batch
\* move resolves it once for each id it is given.
ResolvesAccount(c) ==
    /\ c.op \in AccountOps
    /\ c.op = "batchMoveMessages" => c.ids # <<>>

\* The account listings among the executions of an operation, in order.
Listings(tr) == SelectSeq(tr, LAMBDA e : e.script = listAccountsScript)

\* C23: the label "iCloud" is never the cached default.  An operation that
\* resolves the account, called without an account while nothing is cached,
\* issues the account listing first; as long as a listing fails or finds no
\* account the cache stays empty and the next resolution (of the next id of a
\* batch move, of the next operation) issues the listing again; the first
\* listing that finds an account caches the name of the first one.
FallbackIsNeverCached ==
    [][/\ defaultAccount' # siCloud
       /\ (/\ ~Truthy(defaultAccount)
           /\ ResolvesAccount(call') /\ ~Truthy(call'.account)) =>
              LET listings == Listings(trace')
                  found == listAccounts(Last(listings).result)
                  resolutions == IF call'.op = "batchMoveMessages" THEN Len(call'.ids)
                                 ELSE 1
              IN  /\ trace' # <<>> /\ trace'[1].script = listAccountsScript
                  /\ \A k \in 1..(Len(listings) - 1) :
                         Len(listAccounts(listings[k].result)) = 0
                  /\ IF Len(found) = 0
                     THEN /\ defaultAccount' = defaultAccount
                          /\ ret'.kind # "throw" => Len(listings) = resolutions
                     ELSE defaultAccount' = found[1].name]_vars

\* An operation fell back to "iCloud" after a failed listing, the cache empty.
FallbackIsNeverCachedWitness ==
    /\ call.op = "listMailboxes"
    /\ call.account = undefined
    /\ ~trace[1].result.success
    /\ AccountArgsOf(trace[2].script) = {siCloud}
    /\ defaultAccount = null

CheckNames == <<"mail_app", "permissions", "accounts", "operations">>

\* C25: the checks of a healthCheck result are named by a non-empty prefix of
\* mail_app, permissions, accounts, operations; healthy holds exactly when all
\* four are there and all have passed; in an unhealthy result the last check,
\* and it alone, has not passed; and the operations check has always passed,
\* also when the mailbox listing it runs fails.
HealthCheckResultIsPrefix ==
    call.op = "healthCheck" =>
        LET checks == ret.val.checks
        IN  /\ Len(checks) \in 1..4
            /\ \A i \in 1..Len(checks) : checks[i].name = CheckNames[i]
            /\ ret.val.healthy <=>
                   (Len(checks) = 4 /\ \A i \in 1..Len(checks) : checks[i].passed)
            /\ ~ret.val.healthy =>
                   /\ ~checks[Len(checks)].passed
                   /\ \A i \in 1..(Len(checks) - 1) : checks[i].passed
            /\ Len(checks) = 4 => checks[4].passed

\* The mailbox listing of the fourth check failed and the result is healthy.
HealthCheckResultIsPrefixWitness ==
    /\ call.op = "healthCheck"
    /\ Len(ret.val.checks) = 4
    /\ ~trace[Len(trace)].result.success
    /\ trace[Len(trace)].script.template = "listMailboxes"
    /\ ret.val.checks[4].passed
    /\ ret.val.healthy

\* The messages of before that after no longer holds as they were.
ChangedMessages(before, after) ==
    {<<k, i>> \in (1..Len(before)) \X (1..2) :
        /\ i <= Len(before[k].messages)
        /\ before[k].messages[i] \notin Range(after[k].messages)}
HoldsId(mail, id) ==
    \E k \in 1..Len(mail) : \E i \in 1..Len(mail[k].messages) : mail[k].messages[i].id = id

\* C26: one call of a by-id action (mark read or unread, flag or unflag,
\* delete, move) changes at most one message of Mail, and when no mailbox
\* holds the id it changes none and returns false.
OneCallChangesAtMostOneMessage ==
    ret # Pending =>
        /\ Cardinality(ChangedMessages(call.before, mailAccounts)) <= 1
        /\ ~HoldsId(call.before, call.id) =>
               /\ mailAccounts = call.before
               /\ ret = RetBool(FALSE)

\* Two scripts ask Mail the same thing: the same tell block, the same values
\* put in, the same messages gone through.
SameQuery(a, b, messages) ==
    /\ a.scope = b.scope
    /\ a.args = b.args
    /\ SelectedMessages(a, messages) = SelectedMessages(b, messages)

\* listMessages for the call and the answers a state of the search was run with.
ListingFor(c) ==
    listMessages(c.mailbox, c.account, c.limit, c.cached, c.answers.accounts,
                 c.answers.mailboxes,
                 IF c.answers.executed
                 THEN Ok(ScriptOutput(listMessagesScript(sWork, sINBOX, c.limit),
                                      c.messages, c.limit))
                 ELSE Fail(sTimeout))

\* C27: searchMessages without a query (undefined or the empty string) does
\* what listMessages does for the same mailbox, account, limit and state of
\* Mail: the same executions with the same results, the same value returned
\* (or the same exception), the same default account left in the cache.
SearchWithoutQueryIsListing ==
    (call.op = "searchMessages" /\ ret # Pending /\ ~Truthy(call.query)) =>
        \A run \in {ListingFor(call)} :
            /\ ret = (IF run.threw THEN RetThrow ELSE RetList(run.value))
            /\ defaultAccount = run.cache
            /\ Len(trace) = Len(run.trace)
            /\ \A i \in 1..Len(trace) :
                /\ trace[i].result = run.trace[i].result
                /\ SameQuery(trace[i].script, run.trace[i].script, call.messages)

SearchWithoutQueryIsListingWitness ==
    /\ call.op = "searchMessages"
    /\ call.query = <<>>
    /\ call.account = undefined
    /\ call.cached = null
    /\ Len(call.messages) = 2
    /\ call.messages[1].subject = sPlain
    /\ call.messages[2].sender = <<"b">>
    /\ call.limit = 50
    /\ Len(trace) = 3
    /\ ret.kind = "list"
    /\ Len(ret.val) = 2
    /\ ret.val[2].id = sId8
    /\ defaultAccount = sWork

\* C28: in the list a batch operation returns, record i carries ids[i] (the
\* order of the input, duplicates kept), and a record has an error text exactly
\* when its success flag is false.
BatchRecordsFollowInput ==
    (call.op \in BatchOps /\ ret.kind = "list") =>
        /\ Len(ret.val) = Len(call.ids)
        /\ \A i \in 1..Len(ret.val) :
            /\ ret.val[i].id = call.ids[i]
            /\ ret.val[i].success \in BOOLEAN
            /\ (ret.val[i].error # undefined) <=> ~ret.val[i].success

BatchRecordsFollowInputWitness ==
    /\ call.op = "batchMoveMessages"
    /\ call.ids = <<sId, sId>>
    /\ ret.kind = "list"
    /\ Len(ret.val) = 2
    /\ ret.val[1].success
    /\ ret.val[1].error = undefined
    /\ ~ret.val[2].success
    /\ ret.val[2].error = <<"Failed to move message">>
    /\ ret.val[2].id = sId

BatchTools == {"batch-delete-messages", "batch-move-messages", "batch-mark-as-read"}

\* The decimal numbers a text holds, in order.
RECURSIVE NumbersIn(_)
NumbersIn(s) ==
    IF s = <<>> THEN <<>>
    ELSE IF IsDigit(Head(s))
    THEN LET digits == CHOOSE n \in 1..Len(s) :
                           /\ \A k \in 1..n : IsDigit(s[k])
                           /\ n = Len(s) \/ ~IsDigit(s[n + 1])
         IN  <<LeadingNumber(s, 0)>> \o NumbersIn(SubSeq(s, digits + 1, Len(s)))
    ELSE NumbersIn(Tail(s))
RECURSIVE SumOf(_)
SumOf(numbers) == IF numbers = <<>> THEN 0 ELSE Head(numbers) + SumOf(Tail(numbers))

\* An item of the batch was done: the script of one of its items was executed
\* and did not fail.
SomeItemSucceeded ==
    \E i \in 1..Len(ItemExecutions(trace)) : actionSucceeded(ItemExecutions(trace)[i].result)

\* C29: a batch tool whose handler ran answers with an error response exactly
\* when every item failed; when an item succeeded the response is a success,
\* and the counts in its text add up to the number of ids given.
BatchToolErrorWhenAllFailed ==
    (call.op = "tool" /\ call.name \in BatchTools /\ ret # Rejected) =>
        /\ ret.val.isError <=> ~SomeItemSucceeded
        /\ ~ret.val.isError => SumOf(NumbersIn(ret.val.text)) = Len(call.params.ids)

\* No field of the message that goes into its line holds a separator.
SeparatorFree(msg) ==
    \A field \in {msg.id, msg.subject, msg.sender, DateAsString(msg.date)} :
        ~Includes(field, sFieldSep) /\ ~Includes(field, sItemSep)

\* C30: for messages whose id, subject, sender and date hold neither "|||" nor
\* "|||ITEM|||", listMessages returns one record per listed message, in order,
\* with the id, the subject, the sender, the read flag and the flagged flag of
\* that message.
MessageListRoundTrip ==
    (call.op = "listMessages" /\ ret # Pending
        /\ \A k \in 1..Len(call.messages) : SeparatorFree(call.messages[k])) =>
        LET listed == IF Len(call.messages) < call.limit THEN Len(call.messages)
                      ELSE call.limit
        IN  /\ ret.kind = "list"
            /\ Len(ret.val) = listed
            /\ \A i \in 1..listed :
                /\ ret.val[i].id = call.messages[i].id
                /\ ret.val[i].subject = call.messages[i].subject
                /\ ret.val[i].sender = call.messages[i].sender
                /\ ret.val[i].isRead = call.messages[i].read
                /\ ret.val[i].isFlagged = call.messages[i].flagged

====
